---- MODULE Spec2Model ----
(***************************************************************************)
(* A model of the AccessManager REST client                                *)
(* (AccessManagerClientBase and AccessManagerClient): the four request     *)
(* primitives, the decoding of an error body, the mapping of a status and  *)
(* an error record to a raised error, and the public operations built on   *)
(* them.                                                                   *)
(***************************************************************************)
EXTENDS Integers, Sequences, FiniteSets, TLC

VARIABLES
    client,   \* the fields of the AccessManagerClientBase instance
    call,     \* the invocation in progress: operation, request sent, settlement, outcome
    nCalls,   \* the number of operations invoked so far on this client
    inFlight  \* the invocations in progress at once, when the caller awaits none
              \* of them before the next: one for each of the caller's promises

vars == <<client, call, nCalls, inFlight>>

\* The number of operations one behaviour invokes on the client.
MaxCalls == 2

----------------------------------------------------------------------------
(* JavaScript values: each value carries its type tag.                       *)

Undefined == [t |-> "undefined"]
Null == [t |-> "null"]
Str(s) == [t |-> "string", v |-> s]
Num(n) == [t |-> "number", v |-> n]
Bool(b) == [t |-> "boolean", v |-> b]
Arr(s) == [t |-> "array", v |-> s]
Obj(f) == [t |-> "object", v |-> f]
EmptyObj == Obj([k \in {} |-> Undefined])

\* typeof x
TypeOf(x) == IF x.t \in {"null", "array", "object"} THEN "object" ELSE x.t

\* x === undefined || x === null
IsNullish(x) == x.t \in {"undefined", "null"}

\* x.hasOwnProperty(k) for a x that is neither undefined nor null and a key k
\* that names a field (never an index or "length")
HasOwnProperty(x, k) == x.t = "object" /\ k \in DOMAIN x.v

\* x[k] for a x that is neither undefined nor null
GetProperty(x, k) == IF HasOwnProperty(x, k) THEN x.v[k] ELSE Undefined

\* `${x}` and String(x)
TemplateString(x) ==
    CASE x.t = "string" -> x.v
      [] x.t = "number" -> ToString(x.v)
      [] x.t = "boolean" -> IF x.v THEN "true" ELSE "false"
      [] x.t = "undefined" -> "undefined"
      [] x.t = "null" -> "null"
      [] x.t = "array" -> "[array]"
      [] OTHER -> "[object Object]"

\* The own keys of the objects the model builds, in the order JSON.stringify
\* writes them (the order the service writes an error body in).
KeyOrder ==
    <<"error", "code", "message", "target", "attributes", "innerError", "name", "value",
      "user", "group", "fromGroup", "toGroup", "applicationComponent", "accessLevel",
      "entityType", "entity">>

RECURSIVE JsonStringify(_)
RECURSIVE JsonStringifyFields(_, _, _)
RECURSIVE JsonStringifyItems(_, _)
\* JSON.stringify(x) for a x that is not undefined
JsonStringify(x) ==
    CASE x.t = "string" -> "\"" \o x.v \o "\""
      [] x.t = "number" -> ToString(x.v)
      [] x.t = "boolean" -> IF x.v THEN "true" ELSE "false"
      [] x.t = "array" -> "[" \o JsonStringifyItems(x.v, 1) \o "]"
      [] x.t = "object" -> "{" \o JsonStringifyFields(x.v, 1, TRUE) \o "}"
      [] OTHER -> "null"
JsonStringifyItems(s, i) ==
    IF i > Len(s) THEN ""
    ELSE (IF i > 1 THEN "," ELSE "") \o JsonStringify(s[i]) \o JsonStringifyItems(s, i + 1)
JsonStringifyFields(f, i, first) ==
    IF i > Len(KeyOrder) THEN ""
    ELSE IF KeyOrder[i] \in DOMAIN f
         THEN (IF first THEN "" ELSE ",") \o "\"" \o KeyOrder[i] \o "\":"
                  \o JsonStringify(f[KeyOrder[i]]) \o JsonStringifyFields(f, i + 1, FALSE)
         ELSE JsonStringifyFields(f, i + 1, first)

----------------------------------------------------------------------------
(* Errors: NotFoundError extends Error, ElementNotFoundError extends         *)
(* NotFoundError. A message is the sequence of the parts its template        *)
(* literal joins.                                                            *)

NoError == [class |-> "none", message |-> <<>>, resourceId |-> Undefined,
            elementType |-> Undefined, cause |-> Undefined]

\* new Error(message, { cause })
NewError(message, cause) ==
    [class |-> "Error", message |-> message, resourceId |-> Undefined,
     elementType |-> Undefined, cause |-> cause]

\* new NotFoundError(message, resourceId)
NewNotFoundError(message, resourceId) ==
    [NewError(<<TemplateString(message)>>, Undefined) EXCEPT
        !.class = "NotFoundError", !.resourceId = resourceId]

\* new ElementNotFoundError(...) that hands the element type to the
\* constructor of NotFoundError as the resource id.
NewElementNotFoundError_TypeAsResourceId(message, elementType, elementValue) ==
    [NewNotFoundError(message, Str(elementType)) EXCEPT
        !.class = "ElementNotFoundError", !.elementType = Str(elementType)]

\* new ElementNotFoundError(message, elementType, elementValue)
NewElementNotFoundError(message, elementType, elementValue) ==
    [NewNotFoundError(message, elementValue) EXCEPT
        !.class = "ElementNotFoundError", !.elementType = Str(elementType)]

\* The TypeError the runtime raises for a property read on undefined or null.
NewTypeError ==
    [NewError(<<"Cannot read properties of undefined or null">>, Undefined) EXCEPT
        !.class = "TypeError"]

\* get ResourceId()
ResourceId(e) == e.resourceId

\* get ElementType()
ElementType(e) == e.elementType

\* get ElementValue()
ElementValue(e) == e.resourceId

\* e instanceof cls
InstanceOf(e, cls) ==
    CASE cls = "ElementNotFoundError" -> e.class = "ElementNotFoundError"
      [] cls = "NotFoundError" -> e.class \in {"NotFoundError", "ElementNotFoundError"}
      [] cls = "TypeError" -> e.class = "TypeError"
      [] cls = "Error" -> e.class # "none"
      [] OTHER -> FALSE

(* How a function call ends: it returns a value or throws an error; via is   *)
(* the sequence of the client's functions the call went through.             *)
Return(value, via) == [kind |-> "return", value |-> value, error |-> NoError, via |-> via]
Throw(error, via) == [kind |-> "throw", value |-> Undefined, error |-> error, via |-> via]
NoOutcome == [kind |-> "none", value |-> Undefined, error |-> NoError, via |-> <<>>]

----------------------------------------------------------------------------
(* The decoder of an error body.                                             *)

NoRecord == [Code |-> Undefined, Message |-> Undefined, Target |-> Undefined,
             Attributes |-> <<>>, InnerError |-> Undefined]

\* new NameValuePair(name, value)
NameValuePair(name, value) == [Name |-> name, Value |-> value]

\* new HttpErrorResponse(...) that takes the code of the inner error when
\* there is one.
HttpErrorResponse_CodeOfInnerError(code, message, target, attributes, innerError) ==
    [Code |-> IF innerError.t = "object" /\ "code" \in DOMAIN innerError.v
              THEN innerError.v["code"] ELSE code,
     Message |-> message, Target |-> target,
     Attributes |-> attributes, InnerError |-> innerError]

\* new HttpErrorResponse(code, message, target, attributes, innerError)
HttpErrorResponse(code, message, target, attributes, innerError) ==
    [Code |-> code, Message |-> message, Target |-> target,
     Attributes |-> attributes, InnerError |-> innerError]

\* The loop over error["attributes"]: the pairs pushed, or a TypeError when
\* the value or one of its elements is undefined or null.
DecodeAttributes(attributesArray) ==
    CASE IsNullish(attributesArray) -> [ok |-> FALSE, list |-> <<>>]
      [] attributesArray.t = "array" ->
            IF \E i \in DOMAIN attributesArray.v : IsNullish(attributesArray.v[i])
            THEN [ok |-> FALSE, list |-> <<>>]
            ELSE [ok |-> TRUE,
                  list |-> [i \in DOMAIN attributesArray.v |->
                              NameValuePair(GetProperty(attributesArray.v[i], "name"),
                                            GetProperty(attributesArray.v[i], "value"))]]
      [] attributesArray.t = "string" ->
            [ok |-> TRUE,
             list |-> [i \in 1..Len(attributesArray.v) |-> NameValuePair(Undefined, Undefined)]]
      [] OTHER -> [ok |-> TRUE, list |-> <<>>]

\* DeserializeResponseDataToHttpErrorResponse: r is "record" with the record
\* decoded, "null" for the null result, "throw" when the decoder itself
\* raises a TypeError.
DeserializeResponseDataToHttpErrorResponse(responseData) ==
    IF IsNullish(responseData) THEN [r |-> "null", rec |-> NoRecord]
    ELSE IF HasOwnProperty(responseData, "error")
            /\ TypeOf(GetProperty(responseData, "error")) = "object"
    THEN LET error == GetProperty(responseData, "error") IN
         IF IsNullish(error) THEN [r |-> "throw", rec |-> NoRecord]
         ELSE IF HasOwnProperty(error, "code") /\ HasOwnProperty(error, "message")
         THEN LET code == GetProperty(error, "code")
                  message == GetProperty(error, "message")
                  target == IF HasOwnProperty(error, "target")
                            THEN GetProperty(error, "target") ELSE Null
                  attributes == IF HasOwnProperty(error, "attributes")
                                THEN DecodeAttributes(GetProperty(error, "attributes"))
                                ELSE [ok |-> TRUE, list |-> <<>>]
                  innerError == IF HasOwnProperty(error, "innerError")
                                THEN GetProperty(error, "innerError") ELSE Null
              IN IF attributes.ok
                 THEN [r |-> "record",
                       rec |-> HttpErrorResponse(code, message, target, attributes.list, innerError)]
                 ELSE [r |-> "throw", rec |-> NoRecord]
         ELSE [r |-> "null", rec |-> NoRecord]
    ELSE [r |-> "null", rec |-> NoRecord]

RECURSIVE FirstAttributeValue(_, _, _)
FirstAttributeValue(attributes, attributeName, i) ==
    IF i > Len(attributes) THEN Str("")
    ELSE IF attributes[i].Name = Str(attributeName) THEN attributes[i].Value
    ELSE FirstAttributeValue(attributes, attributeName, i + 1)

\* GetHttpErrorResponseAttributeValue without the test of the attribute's name.
GetHttpErrorResponseAttributeValue_IgnoresName(httpErrorResponse, attributeName) ==
    IF Len(httpErrorResponse.Attributes) > 0
    THEN httpErrorResponse.Attributes[1].Value
    ELSE Str("")

\* GetHttpErrorResponseAttributeValue
GetHttpErrorResponseAttributeValue(httpErrorResponse, attributeName) ==
    FirstAttributeValue(httpErrorResponse.Attributes, attributeName, 1)

----------------------------------------------------------------------------
(* URLs. A URL is its origin, the segments of its path (a last segment ""    *)
(* is a trailing slash) and its query string.                                *)

RECURSIVE JoinPath(_, _)
JoinPath(path, i) ==
    IF i > Len(path) THEN ""
    ELSE "/" \o path[i] \o JoinPath(path, i + 1)

\* url.href and url.toString()
Href(url) ==
    url.origin \o JoinPath(url.path, 1) \o (IF url.query = "" THEN "" ELSE "?" \o url.query)

RECURSIVE RemoveDotSegments(_, _, _)
\* The path state of the URL parser: a "." segment is dropped and a ".."
\* segment drops the segment before it; as the last segment either leaves a
\* trailing slash.
RemoveDotSegments(segments, i, out) ==
    IF i > Len(segments) THEN out
    ELSE LET seg == segments[i]
             last == i = Len(segments)
         IN CASE seg = ".." ->
                    RemoveDotSegments(segments, i + 1,
                        (IF Len(out) > 0 THEN SubSeq(out, 1, Len(out) - 1) ELSE out)
                            \o (IF last THEN <<"">> ELSE <<>>))
              [] seg = "." ->
                    RemoveDotSegments(segments, i + 1, out \o (IF last THEN <<"">> ELSE <<>>))
              [] OTHER -> RemoveDotSegments(segments, i + 1, Append(out, seg))

\* new URL(base.href + path), where base ends with a slash and path is the
\* template literal's segments and query string
NewUrl(base, segments, query) ==
    [origin |-> base.origin,
     path |-> RemoveDotSegments(SubSeq(base.path, 1, Len(base.path) - 1) \o segments, 1, <<>>),
     query |-> query]

\* encodeURIComponent over the identifiers of the model
EncodeURIComponent(s) ==
    CASE s = "a b/c" -> "a%20b%2Fc"
      [] s = "x?y#%" -> "x%3Fy%23%25"
      [] OTHER -> s

\* decodeURIComponent over the segments of the model's URLs
DecodeURIComponent(s) ==
    CASE s = "a%20b%2Fc" -> "a b/c"
      [] s = "x%3Fy%23%25" -> "x?y#%"
      [] OTHER -> s

----------------------------------------------------------------------------
(* The client's configuration.                                               *)

\* A value of one of the client's type parameters (TUser, TGroup, TComponent,
\* TAccess): the type it is of and the string that identifies it.
TypedValue(T, string) == [type |-> T, value |-> Str(string)]

\* An IUniqueStringifier<T>
UniqueStringifier(T) == [type |-> T]

\* The string that the stringifier of one type parameter gives for a value of
\* another: the compiler rejects such a call, and no identifier is this
\* string.
NotOfType(T) == "[not a " \o T \o "]"

\* stringifier.ToString(inputObject): the string that identifies inputObject,
\* a value of the stringifier's type parameter
StringifierToString(stringifier, inputObject) ==
    IF inputObject.type = stringifier.type
    THEN inputObject.value.v
    ELSE NotOfType(stringifier.type)

\* stringifier.FromString(stringifiedObject): the T that stringifiedObject
\* identifies
StringifierFromString(stringifier, stringifiedObject) ==
    [type |-> stringifier.type, value |-> stringifiedObject]

\* InitializeBaseUrl without the API suffix.
InitializeBaseUrl_NoSuffix(baseUrl) == baseUrl

\* InitializeBaseUrl
InitializeBaseUrl(baseUrl) == NewUrl(baseUrl, <<"api", "v1", "">>, "")

\* The map with the function for 404 registered for status 500 as well.
InitializeStatusCodeToErrorThrowingFunctionMap_Also500 ==
    (404 :> "NotFoundErrorThrowingFunction") @@ (500 :> "NotFoundErrorThrowingFunction")

\* InitializeStatusCodeToErrorThrowingFunctionMap: the statuses that have an
\* error-throwing function, each with the name of its function.
InitializeStatusCodeToErrorThrowingFunctionMap == (404 :> "NotFoundErrorThrowingFunction")

\* SetBaseConstructorParameters that leaves an Accept header of the caller
\* as it is.
SetBaseConstructorParameters_KeepsCallerAccept(baseUrl, userStringifier, groupStringifier, applicationComponentStringifier, accessLevelStringifier, requestConfig) ==
    [baseUrl |-> InitializeBaseUrl(baseUrl),
     userStringifier |-> userStringifier,
     groupStringifier |-> groupStringifier,
     applicationComponentStringifier |-> applicationComponentStringifier,
     accessLevelStringifier |-> accessLevelStringifier,
     requestConfig |->
        [requestConfig EXCEPT !.headers =
            Obj((IF requestConfig.headers = Undefined THEN EmptyObj ELSE requestConfig.headers).v
                @@ ("Accept" :> Str("application/json")))],
     statusCodeToErrorThrowingFunctionMap |-> InitializeStatusCodeToErrorThrowingFunctionMap]

\* SetBaseConstructorParameters: requestConfig is the caller's object, and the
\* headers are written into it.
SetBaseConstructorParameters(baseUrl, userStringifier, groupStringifier, applicationComponentStringifier, accessLevelStringifier, requestConfig) ==
    [baseUrl |-> InitializeBaseUrl(baseUrl),
     userStringifier |-> userStringifier,
     groupStringifier |-> groupStringifier,
     applicationComponentStringifier |-> applicationComponentStringifier,
     accessLevelStringifier |-> accessLevelStringifier,
     requestConfig |->
        [requestConfig EXCEPT !.headers =
            Obj(("Accept" :> Str("application/json"))
                @@ (IF requestConfig.headers = Undefined THEN EmptyObj ELSE requestConfig.headers).v)],
     statusCodeToErrorThrowingFunctionMap |-> InitializeStatusCodeToErrorThrowingFunctionMap]

\* AppendPathToBaseUrl
AppendPathToBaseUrl(c, segments, query) == NewUrl(c.baseUrl, segments, query)

----------------------------------------------------------------------------
(* Error handling.                                                           *)

\* The function for status 404 with its last branch reading the attribute
\* "Resource".
NotFoundErrorThrowingFunction_WrongAttribute(httpErrorResponse, via) ==
    CASE httpErrorResponse.Code = Str("UserNotFoundException") ->
            Throw(NewElementNotFoundError(httpErrorResponse.Message, "User",
                      GetHttpErrorResponseAttributeValue(httpErrorResponse, "User")), via)
      [] httpErrorResponse.Code = Str("GroupNotFoundException") ->
            Throw(NewElementNotFoundError(httpErrorResponse.Message, "Group",
                      GetHttpErrorResponseAttributeValue(httpErrorResponse, "Group")), via)
      [] httpErrorResponse.Code = Str("EntityTypeNotFoundException") ->
            Throw(NewElementNotFoundError(httpErrorResponse.Message, "EntityType",
                      GetHttpErrorResponseAttributeValue(httpErrorResponse, "EntityType")), via)
      [] httpErrorResponse.Code = Str("EntityNotFoundException") ->
            Throw(NewElementNotFoundError(httpErrorResponse.Message, "Entity",
                      GetHttpErrorResponseAttributeValue(httpErrorResponse, "Entity")), via)
      [] OTHER ->
            Throw(NewNotFoundError(httpErrorResponse.Message,
                      GetHttpErrorResponseAttributeValue(httpErrorResponse, "Resource")), via)

\* The function InitializeStatusCodeToErrorThrowingFunctionMap registers for
\* status 404.
NotFoundErrorThrowingFunction(httpErrorResponse, via) ==
    CASE httpErrorResponse.Code = Str("UserNotFoundException") ->
            Throw(NewElementNotFoundError(httpErrorResponse.Message, "User",
                      GetHttpErrorResponseAttributeValue(httpErrorResponse, "User")), via)
      [] httpErrorResponse.Code = Str("GroupNotFoundException") ->
            Throw(NewElementNotFoundError(httpErrorResponse.Message, "Group",
                      GetHttpErrorResponseAttributeValue(httpErrorResponse, "Group")), via)
      [] httpErrorResponse.Code = Str("EntityTypeNotFoundException") ->
            Throw(NewElementNotFoundError(httpErrorResponse.Message, "EntityType",
                      GetHttpErrorResponseAttributeValue(httpErrorResponse, "EntityType")), via)
      [] httpErrorResponse.Code = Str("EntityNotFoundException") ->
            Throw(NewElementNotFoundError(httpErrorResponse.Message, "Entity",
                      GetHttpErrorResponseAttributeValue(httpErrorResponse, "Entity")), via)
      [] OTHER ->
            Throw(NewNotFoundError(httpErrorResponse.Message,
                      GetHttpErrorResponseAttributeValue(httpErrorResponse, "ResourceId")), via)

\* A call of the function the map holds that raises nothing.
CallErrorThrowingFunction_Swallows(name, httpErrorResponse, via) == Return(Undefined, via)

\* A call of the function the map holds under a name.
CallErrorThrowingFunction(name, httpErrorResponse, via) ==
    IF name = "NotFoundErrorThrowingFunction"
    THEN NotFoundErrorThrowingFunction(httpErrorResponse, via)
    ELSE Return(Undefined, via)

\* HandleAxiosError
HandleAxiosError(method, requestUrl, error) ==
    Throw(NewError(<<"Failed to call URL '", Href(requestUrl), "' with '", method,
                     "' method.  ", error.message>>,
                   [t |-> "AxiosError", v |-> error]),
          <<"HandleAxiosError">>)

\* The baseExceptionMessage of HandleNonSuccessResponseStatus
BaseExceptionMessage(method, requestUrl, status) ==
    <<"Failed to call URL '", Href(requestUrl), "' with '", method,
      "' method.  Received non-succces HTTP response status ", TemplateString(status)>>

\* HandleNonSuccessResponseStatus
HandleNonSuccessResponseStatus(c, method, requestUrl, status, responseData) ==
    LET baseExceptionMessage == BaseExceptionMessage(method, requestUrl, status)
        decoded == DeserializeResponseDataToHttpErrorResponse(responseData)
        via == <<"HandleNonSuccessResponseStatus", "DeserializeResponseDataToHttpErrorResponse">>
    IN CASE decoded.r = "throw" -> Throw(NewTypeError, via)
         [] decoded.r = "record" ->
                IF status.t = "number" /\ status.v \in DOMAIN c.statusCodeToErrorThrowingFunctionMap
                THEN CallErrorThrowingFunction(
                         c.statusCodeToErrorThrowingFunctionMap[status.v], decoded.rec,
                         via \o <<"statusCodeToErrorThrowingFunctionMap.has",
                                  "statusCodeToErrorThrowingFunctionMap.get">>)
                ELSE Throw(NewError(baseExceptionMessage \o
                               <<", error code '", TemplateString(decoded.rec.Code),
                                 "', and error message '", TemplateString(decoded.rec.Message),
                                 "'.">>, Undefined),
                           Append(via, "statusCodeToErrorThrowingFunctionMap.has"))
         [] OTHER ->
                IF ~IsNullish(responseData)
                THEN IF TypeOf(responseData) = "object"
                     THEN Throw(NewError(baseExceptionMessage \o
                                    <<", and response body '", JsonStringify(responseData), "'.">>,
                                    Undefined), via)
                     ELSE Throw(NewError(baseExceptionMessage \o
                                    <<", and response body '", TemplateString(responseData), "'.">>,
                                    Undefined), via)
                ELSE Throw(NewError(baseExceptionMessage \o <<".">>, Undefined), via)

----------------------------------------------------------------------------
(* The request primitives, from the settlement of the transport's promise   *)
(* on: st.kind is "resolved" (st is the response: status, data) or           *)
(* "rejected" (st is the error: status, message, and data for                *)
(* error.response?.data).                                                    *)

\* The catch block testing for a response instead of a status.
CatchBlock_AlwaysNonSuccess(c, method, requestUrl, typedError) ==
    HandleNonSuccessResponseStatus(c, method, requestUrl, typedError.status, typedError.data)

\* The catch block shared by the four primitives, after any test of its own.
CatchBlock(c, method, requestUrl, typedError) ==
    IF typedError.status # Undefined
    THEN HandleNonSuccessResponseStatus(c, method, requestUrl, typedError.status, typedError.data)
    ELSE HandleAxiosError(method, requestUrl, typedError)

\* A read of response!.status or response!.data after a catch block that
\* returned: response was never assigned.
ReadOfUnassignedResponse(handled) ==
    IF handled.kind = "throw" THEN handled ELSE Throw(NewTypeError, handled.via)

\* SendGetRequestAsync
SendGetRequestAsync(c, requestUrl, st) ==
    IF st.kind = "rejected"
    THEN ReadOfUnassignedResponse(CatchBlock(c, "GET", requestUrl, st))
    ELSE Return(st.data, <<>>)

\* SendGetRequestForContainsMethodAsync without its test for status 404.
SendGetRequestForContainsMethodAsync_No404Test(c, requestUrl, st) ==
    IF st.kind = "rejected"
    THEN ReadOfUnassignedResponse(CatchBlock(c, "GET", requestUrl, st))
    ELSE IF st.status = Num(200)
         THEN Return(Bool(TRUE), <<>>)
         ELSE Return(Bool(FALSE), <<>>)

\* SendGetRequestForContainsMethodAsync
SendGetRequestForContainsMethodAsync(c, requestUrl, st) ==
    IF st.kind = "rejected"
    THEN IF st.status = Num(404)
         THEN Return(Bool(FALSE), <<>>)
         ELSE ReadOfUnassignedResponse(CatchBlock(c, "GET", requestUrl, st))
    ELSE IF st.status = Num(200)
         THEN Return(Bool(TRUE), <<>>)
         ELSE Return(Bool(FALSE), <<>>)

\* SendPostRequestAsync without the status test on a resolved response.
SendPostRequestAsync_NoStatusTest(c, requestUrl, st) ==
    IF st.kind = "rejected"
    THEN ReadOfUnassignedResponse(CatchBlock(c, "POST", requestUrl, st))
    ELSE Return(Undefined, <<>>)

\* SendPostRequestAsync
SendPostRequestAsync(c, requestUrl, st) ==
    IF st.kind = "rejected"
    THEN ReadOfUnassignedResponse(CatchBlock(c, "POST", requestUrl, st))
    ELSE IF st.status # Num(201)
         THEN LET handled == HandleNonSuccessResponseStatus(c, "POST", requestUrl, st.status, st.data)
              IN IF handled.kind = "throw" THEN handled ELSE Return(Undefined, handled.via)
         ELSE Return(Undefined, <<>>)

\* SendDeleteRequestAsync expecting the status of a creation.
SendDeleteRequestAsync_Expects201(c, requestUrl, st) ==
    IF st.kind = "rejected"
    THEN ReadOfUnassignedResponse(CatchBlock(c, "DELETE", requestUrl, st))
    ELSE IF st.status # Num(201)
         THEN LET handled == HandleNonSuccessResponseStatus(c, "DELETE", requestUrl, st.status, st.data)
              IN IF handled.kind = "throw" THEN handled ELSE Return(Undefined, handled.via)
         ELSE Return(Undefined, <<>>)

\* SendDeleteRequestAsync
SendDeleteRequestAsync(c, requestUrl, st) ==
    IF st.kind = "rejected"
    THEN ReadOfUnassignedResponse(CatchBlock(c, "DELETE", requestUrl, st))
    ELSE IF st.status # Num(200)
         THEN LET handled == HandleNonSuccessResponseStatus(c, "DELETE", requestUrl, st.status, st.data)
              IN IF handled.kind = "throw" THEN handled ELSE Return(Undefined, handled.via)
         ELSE Return(Undefined, <<>>)

----------------------------------------------------------------------------
(* What the model draws its inputs from.                                     *)

\* The identifiers: plain ones, ones with reserved characters, and the dot
\* segments of a URL path.
Users == {TypedValue("TUser", s) : s \in {"alice", "a b/c"}}
Groups == {TypedValue("TGroup", s) : s \in {"admins", ".."}}
ApplicationComponents == {TypedValue("TComponent", "Order")}
AccessLevels == {TypedValue("TAccess", "View")}
EntityTypes == {"ClientAccount"}
Entities == {"x?y#%", "."}

\* The statuses the service answers with.
Statuses == {200, 201, 204, 404, 500}

\* The codes of the error bodies: the four element-not-found codes and one
\* that is none of them.
KnownNotFoundCodes == {"UserNotFoundException", "GroupNotFoundException",
                       "EntityTypeNotFoundException", "EntityNotFoundException"}
ErrorCodes == KnownNotFoundCodes \cup {"ArgumentException"}

Attribute(name, value) == Obj(("name" :> Str(name)) @@ ("value" :> Str(value)))

\* The values of the attributes field of an error body; Undefined is a body
\* without the field.
AttributeLists ==
    {Undefined,
     Arr(<<>>),
     Arr(<<Attribute("User", "bob")>>),
     Arr(<<Attribute("ResourceId", "xyz")>>),
     Arr(<<Attribute("Group", "admins"), Attribute("User", "bob")>>),
     Arr(<<Attribute("User", "bob"), Attribute("User", "carol")>>),
     Arr(<<Attribute("EntityType", "ClientAccount"), Attribute("Entity", "CompanyA")>>),
     Arr(<<Attribute("ResourceId", "xyz"), Attribute("Group", "admins")>>)}

\* The values of the innerError field of an error body.
InnerErrors ==
    {Undefined,
     Obj(("code" :> Str("UserNotFoundException")) @@ ("message" :> Str("inner"))
         @@ ("attributes" :> Arr(<<Attribute("User", "eve")>>)))}

\* { "error": { "code", "message", "attributes"?, "innerError"? } }
ErrorBody(code, message, attributes, innerError) ==
    Obj("error" :> Obj(
        ("code" :> code) @@ ("message" :> message)
        @@ (IF attributes = Undefined THEN <<>> ELSE ("attributes" :> attributes))
        @@ (IF innerError = Undefined THEN <<>> ELSE ("innerError" :> innerError))))

\* The bodies with a nested error object that carries code and message.
StructuredBodies ==
    {ErrorBody(Str(code), Str("It failed."), attributes, innerError) :
        code \in ErrorCodes, attributes \in AttributeLists, innerError \in InnerErrors}
    \cup {ErrorBody(Str("UserNotFoundException"), Str("It failed."), Null, Undefined),
          ErrorBody(Str("UserNotFoundException"), Str("It failed."), Arr(<<Null>>), Undefined),
          ErrorBody(Num(7), Str("It failed."), Undefined, Undefined),
          ErrorBody(Str("ArgumentException"), Null, Undefined, Undefined),
          Obj("error" :> Obj(("code" :> Str("ArgumentException")) @@ ("message" :> Str("It failed."))
                             @@ ("target" :> Str("AddUser"))))}

\* The bodies without one: absent bodies, bodies that are no object, objects
\* without an error field, and error fields that carry no code and message.
UnstructuredBodies ==
    {Undefined, Null, Str("Service Unavailable"), Bool(TRUE), Bool(FALSE),
     Arr(<<Str("alice")>>), EmptyObj,
     Obj("error" :> Null),
     Obj("error" :> Str("boom")),
     Obj("error" :> Arr(<<>>)),
     Obj("error" :> EmptyObj),
     Obj("error" :> Obj("code" :> Str("ArgumentException"))),
     Obj("error" :> Obj("message" :> Str("It failed.")))}

\* An element of a result array, with the fields the service writes.
WireObject(fields) == Obj([k \in DOMAIN fields |-> Str(fields[k])])

\* The result arrays of the queries, one for each shape the service answers
\* with: each has the same element twice and then a different one, and the
\* entityType and entity one has two different elements with the same entity.
WireArrays ==
    {Arr(<<>>),
     Arr(<<Null>>),
     Arr(<<Str("alice"), Str("alice"), Str("bob")>>),
     Arr(<<WireObject([user |-> "alice"]), WireObject([user |-> "alice"]),
           WireObject([user |-> "bob"])>>),
     Arr(<<WireObject([group |-> "admins"]), WireObject([group |-> "admins"]),
           WireObject([group |-> "staff"])>>),
     Arr(<<WireObject([toGroup |-> "admins"]), WireObject([toGroup |-> "admins"]),
           WireObject([toGroup |-> "staff"])>>),
     Arr(<<WireObject([fromGroup |-> "admins"]), WireObject([fromGroup |-> "admins"]),
           WireObject([fromGroup |-> "staff"])>>),
     Arr(<<WireObject([applicationComponent |-> "Order", accessLevel |-> "View"]),
           WireObject([applicationComponent |-> "Order", accessLevel |-> "View"]),
           WireObject([applicationComponent |-> "Order", accessLevel |-> "Modify"])>>),
     Arr(<<WireObject([entityType |-> "ClientAccount", entity |-> "CompanyA"]),
           WireObject([entityType |-> "ClientAccount", entity |-> "CompanyA"]),
           WireObject([entityType |-> "BusinessUnit", entity |-> "CompanyA"])>>),
     Arr(<<WireObject([entity |-> "CompanyA"]), WireObject([entity |-> "CompanyA"]),
           WireObject([entity |-> "CompanyB"])>>)}

Bodies == StructuredBodies \cup UnstructuredBodies \cup WireArrays

\* The request configurations a caller constructs the client with, each an
\* object of the caller's:
\* validateStatus is axios's default (2xx resolves) or accepts every status.
RequestConfigs ==
    {[object |-> "the caller's", headers |-> Undefined, validateStatus |-> "default"],
     [object |-> "the caller's",
      headers |-> Obj(("Accept" :> Str("text/html")) @@ ("Authorization" :> Str("Bearer t"))),
      validateStatus |-> "all"]}

BaseUrls == {[origin |-> "http://x", path |-> <<"">>, query |-> ""]}

----------------------------------------------------------------------------
(* The transport. axios settles a response by requestConfig.validateStatus:  *)
(* it resolves the promise with the response when the status passes, and     *)
(* rejects it with an error carrying the status and the response when it     *)
(* does not; with no response it rejects with an error that has no status.   *)

ValidateStatus(requestConfig, status) ==
    requestConfig.validateStatus = "all" \/ (status >= 200 /\ status < 300)

NoSettlement == [kind |-> "none", status |-> Undefined, data |-> Undefined, message |-> ""]

Resolved(status, data) ==
    [kind |-> "resolved", status |-> Num(status), data |-> data, message |-> ""]

RejectedWithStatus(status, data) ==
    [kind |-> "rejected", status |-> Num(status), data |-> data,
     message |-> "Request failed with status code " \o ToString(status)]

RejectedWithoutResponse ==
    [kind |-> "rejected", status |-> Undefined, data |-> Undefined, message |-> "Network Error"]

----------------------------------------------------------------------------
(* The results of the queries: what an operation builds from the rawResults *)
(* its primitive returned.                                                   *)

\* The characters of the strings the model's bodies hold.
Characters(s) ==
    CASE s = "Service Unavailable" ->
            <<"S", "e", "r", "v", "i", "c", "e", " ",
              "U", "n", "a", "v", "a", "i", "l", "a", "b", "l", "e">>
      [] OTHER -> <<>>

\* rawResults[0] ... rawResults[rawResults.length - 1] for a rawResults that
\* is neither undefined nor null: the elements of an array, the characters
\* of a string, and nothing of a value without a length.
RawElements(rawResults) ==
    CASE rawResults.t = "array" -> rawResults.v
      [] rawResults.t = "string" ->
            [i \in 1..Len(Characters(rawResults.v)) |-> Str(Characters(rawResults.v)[i])]
      [] OTHER -> <<>>

\* new ApplicationComponentAndAccessLevel(applicationComponent, accessLevel),
\* the ref-th object the operation creates
NewApplicationComponentAndAccessLevel(ref, applicationComponent, accessLevel) ==
    [t |-> "ApplicationComponentAndAccessLevel", ref |-> ref,
     ApplicationComponent |-> applicationComponent, AccessLevel |-> accessLevel]

\* new EntityTypeAndEntity(entityType, entity), the ref-th object the
\* operation creates
NewEntityTypeAndEntity(ref, entityType, entity) ==
    [t |-> "EntityTypeAndEntity", ref |-> ref, EntityType |-> entityType, Entity |-> entity]

\* The operations that build their result in a loop over rawResults.
ArrayOperations ==
    {"GetUsers", "GetGroups", "GetEntityTypes", "GetEntities",
     "GetUserToGroupMappings", "GetGroupToUserMappings",
     "GetGroupToGroupMappings", "GetGroupToGroupReverseMappings",
     "GetUserToApplicationComponentAndAccessLevelMappings",
     "GetApplicationComponentAndAccessLevelToUserMappings",
     "GetGroupToApplicationComponentAndAccessLevelMappings",
     "GetApplicationComponentAndAccessLevelToGroupMappings",
     "GetUserToEntityMappings", "GetUserToEntityMappingsForType",
     "GetEntityToUserMappings",
     "GetGroupToEntityMappings", "GetGroupToEntityMappingsForType",
     "GetEntityToGroupMappings"}

SetOperations ==
    {"GetApplicationComponentsAccessibleByUser", "GetApplicationComponentsAccessibleByGroup",
     "GetEntitiesAccessibleByUser", "GetEntitiesAccessibleByGroup",
     "GetEntitiesOfTypeAccessibleByUser", "GetEntitiesOfTypeAccessibleByGroup"}

\* The operations whose loop pushes rawResults[i] itself, reading no
\* property of it.
ReadsNoProperty(op) == op \in {"GetUsers", "GetGroups", "GetEntityTypes"}

\* What the i-th pass of an operation's loop pushes or adds, for
\* raw = rawResults[i].
ResultElement(c, op, raw, i) ==
    CASE op = "GetUsers" ->
            StringifierFromString(c.userStringifier, raw)
      [] op = "GetGroups" ->
            StringifierFromString(c.groupStringifier, raw)
      [] op = "GetEntityTypes" ->
            raw
      [] op = "GetUserToGroupMappings" ->
            StringifierFromString(c.groupStringifier, GetProperty(raw, "group"))
      [] op = "GetGroupToUserMappings" ->
            StringifierFromString(c.userStringifier, GetProperty(raw, "user"))
      [] op = "GetGroupToGroupMappings" ->
            StringifierFromString(c.groupStringifier, GetProperty(raw, "toGroup"))
      [] op = "GetGroupToGroupReverseMappings" ->
            StringifierFromString(c.groupStringifier, GetProperty(raw, "fromGroup"))
      [] op = "GetUserToApplicationComponentAndAccessLevelMappings" ->
            NewApplicationComponentAndAccessLevel(i,
                StringifierFromString(c.applicationComponentStringifier,
                                      GetProperty(raw, "applicationComponent")),
                StringifierFromString(c.accessLevelStringifier,
                                      GetProperty(raw, "accessLevel")))
      [] op = "GetApplicationComponentAndAccessLevelToUserMappings" ->
            StringifierFromString(c.userStringifier, GetProperty(raw, "user"))
      [] op = "GetGroupToApplicationComponentAndAccessLevelMappings" ->
            NewApplicationComponentAndAccessLevel(i,
                StringifierFromString(c.applicationComponentStringifier,
                                      GetProperty(raw, "applicationComponent")),
                StringifierFromString(c.accessLevelStringifier,
                                      GetProperty(raw, "accessLevel")))
      [] op = "GetApplicationComponentAndAccessLevelToGroupMappings" ->
            StringifierFromString(c.groupStringifier, GetProperty(raw, "group"))
      [] op = "GetEntities" ->
            GetProperty(raw, "entity")
      [] op = "GetUserToEntityMappings" ->
            NewEntityTypeAndEntity(i, GetProperty(raw, "entityType"), GetProperty(raw, "entity"))
      [] op = "GetUserToEntityMappingsForType" ->
            GetProperty(raw, "entity")
      [] op = "GetEntityToUserMappings" ->
            StringifierFromString(c.userStringifier, GetProperty(raw, "user"))
      [] op = "GetGroupToEntityMappings" ->
            NewEntityTypeAndEntity(i, GetProperty(raw, "entityType"), GetProperty(raw, "entity"))
      [] op = "GetGroupToEntityMappingsForType" ->
            GetProperty(raw, "entity")
      [] op = "GetEntityToGroupMappings" ->
            StringifierFromString(c.groupStringifier, GetProperty(raw, "group"))
      [] op = "GetApplicationComponentsAccessibleByUser" ->
            NewApplicationComponentAndAccessLevel(i,
                StringifierFromString(c.applicationComponentStringifier,
                                      GetProperty(raw, "applicationComponent")),
                StringifierFromString(c.accessLevelStringifier,
                                      GetProperty(raw, "accessLevel")))
      [] op = "GetApplicationComponentsAccessibleByGroup" ->
            NewApplicationComponentAndAccessLevel(i,
                StringifierFromString(c.applicationComponentStringifier,
                                      GetProperty(raw, "applicationComponent")),
                StringifierFromString(c.accessLevelStringifier,
                                      GetProperty(raw, "accessLevel")))
      [] op = "GetEntitiesAccessibleByUser" ->
            NewEntityTypeAndEntity(i, GetProperty(raw, "entityType"), GetProperty(raw, "entity"))
      [] op = "GetEntitiesOfTypeAccessibleByUser" ->
            GetProperty(raw, "entity")
      [] op = "GetEntitiesAccessibleByGroup" ->
            NewEntityTypeAndEntity(i, GetProperty(raw, "entityType"), GetProperty(raw, "entity"))
      [] op = "GetEntitiesOfTypeAccessibleByGroup" ->
            GetProperty(raw, "entity")

\* new Array(): the element put in front of the others.
ArrayPush_InFront(results, element) == <<element>> \o results

\* new Array(): results.push(element)
ArrayPush(results, element) == Append(results, element)

\* SetAdd without the test for an equal element.
SetAdd_NoTest(results, element) == Append(results, element)

\* new Set(): results.add(element). An element equal to one of the set is
\* not added; an object is equal to itself only.
SetAdd(results, element) ==
    IF \E j \in DOMAIN results : results[j] = element
    THEN results
    ELSE Append(results, element)

RECURSIVE ResultsLoop(_, _, _, _, _)
\* The loop over rawResults, from its i-th pass on.
ResultsLoop(c, op, elements, i, results) ==
    IF i > Len(elements) THEN results
    ELSE ResultsLoop(c, op, elements, i + 1,
            IF op \in SetOperations
            THEN SetAdd(results, ResultElement(c, op, elements[i], i))
            ELSE ArrayPush(results, ResultElement(c, op, elements[i], i)))

\* An operation from the return of its primitive on. An operation without a
\* loop returns what the primitive returned; an error of the primitive
\* leaves every operation. rawResults.length of undefined or null, and a
\* property read of an element that is undefined or null, raise a TypeError.
OperationResult(c, op, outcome) ==
    IF outcome.kind = "throw" \/ op \notin (ArrayOperations \cup SetOperations)
    THEN outcome
    ELSE LET rawResults == outcome.value
         IN IF IsNullish(rawResults)
            THEN Throw(NewTypeError, outcome.via)
            ELSE IF ~ReadsNoProperty(op)
                    /\ \E i \in DOMAIN RawElements(rawResults) :
                            IsNullish(RawElements(rawResults)[i])
                 THEN Throw(NewTypeError, outcome.via)
                 ELSE Return([t |-> IF op \in SetOperations THEN "Set" ELSE "Array",
                              v |-> ResultsLoop(c, op, RawElements(rawResults), 1, <<>>)],
                             outcome.via)

----------------------------------------------------------------------------
(* The state machine: one client, its operations invoked one after another. *)

NoUrl == [origin |-> "", path |-> <<>>, query |-> ""]

Idle == [pc |-> "idle", op |-> "", args |-> <<>>, primitive |-> "", url |-> NoUrl,
         requests |-> <<>>, settlement |-> NoSettlement, outcome |-> NoOutcome,
         result |-> NoOutcome]

Init ==
    /\ client \in {SetBaseConstructorParameters(baseUrl, UniqueStringifier("TUser"),
                       UniqueStringifier("TGroup"), UniqueStringifier("TComponent"),
                       UniqueStringifier("TAccess"), requestConfig) :
                       baseUrl \in BaseUrls, requestConfig \in RequestConfigs}
    /\ call = Idle
    /\ nCalls = 0
    /\ inFlight = <<>>

\* The method a primitive sends.
PrimitiveMethod(primitive) ==
    CASE primitive = "SendPostRequestAsync" -> "POST"
      [] primitive = "SendDeleteRequestAsync" -> "DELETE"
      [] OTHER -> "GET"

\* An identifier as a path segment: through its stringifier, then
\* encodeURIComponent.
UserSegment(user) == EncodeURIComponent(StringifierToString(client.userStringifier, user))
GroupSegment(group) == EncodeURIComponent(StringifierToString(client.groupStringifier, group))
ApplicationComponentSegment(applicationComponent) ==
    EncodeURIComponent(StringifierToString(client.applicationComponentStringifier, applicationComponent))
\* An access level converted by the stringifier of the application
\* components.
AccessLevelSegment_ComponentStringifier(accessLevel) ==
    EncodeURIComponent(StringifierToString(client.applicationComponentStringifier, accessLevel))

AccessLevelSegment(accessLevel) ==
    EncodeURIComponent(StringifierToString(client.accessLevelStringifier, accessLevel))

\* The primitive each operation awaits.
OperationPrimitive(op) ==
    CASE op = "GetUsers" -> "SendGetRequestAsync"
      [] op = "GetGroups" -> "SendGetRequestAsync"
      [] op = "GetEntityTypes" -> "SendGetRequestAsync"
      [] op = "AddUser" -> "SendPostRequestAsync"
      [] op = "ContainsUser" -> "SendGetRequestForContainsMethodAsync"
      [] op = "RemoveUser" -> "SendDeleteRequestAsync"
      [] op = "AddGroup" -> "SendPostRequestAsync"
      [] op = "ContainsGroup" -> "SendGetRequestForContainsMethodAsync"
      [] op = "RemoveGroup" -> "SendDeleteRequestAsync"
      [] op = "AddUserToGroupMapping" -> "SendPostRequestAsync"
      [] op = "GetUserToGroupMappings" -> "SendGetRequestAsync"
      [] op = "GetGroupToUserMappings" -> "SendGetRequestAsync"
      [] op = "RemoveUserToGroupMapping" -> "SendDeleteRequestAsync"
      [] op = "AddGroupToGroupMapping" -> "SendPostRequestAsync"
      [] op = "GetGroupToGroupMappings" -> "SendGetRequestAsync"
      [] op = "GetGroupToGroupReverseMappings" -> "SendGetRequestAsync"
      [] op = "RemoveGroupToGroupMapping" -> "SendDeleteRequestAsync"
      [] op = "AddUserToApplicationComponentAndAccessLevelMapping" -> "SendPostRequestAsync"
      [] op = "GetUserToApplicationComponentAndAccessLevelMappings" -> "SendGetRequestAsync"
      [] op = "GetApplicationComponentAndAccessLevelToUserMappings" -> "SendGetRequestAsync"
      [] op = "RemoveUserToApplicationComponentAndAccessLevelMapping" -> "SendDeleteRequestAsync"
      [] op = "AddGroupToApplicationComponentAndAccessLevelMapping" -> "SendPostRequestAsync"
      [] op = "GetGroupToApplicationComponentAndAccessLevelMappings" -> "SendGetRequestAsync"
      [] op = "GetApplicationComponentAndAccessLevelToGroupMappings" -> "SendGetRequestAsync"
      [] op = "RemoveGroupToApplicationComponentAndAccessLevelMapping" -> "SendDeleteRequestAsync"
      [] op = "AddEntityType" -> "SendPostRequestAsync"
      [] op = "ContainsEntityType" -> "SendGetRequestForContainsMethodAsync"
      [] op = "RemoveEntityType" -> "SendDeleteRequestAsync"
      [] op = "AddEntity" -> "SendPostRequestAsync"
      [] op = "GetEntities" -> "SendGetRequestAsync"
      [] op = "ContainsEntity" -> "SendGetRequestForContainsMethodAsync"
      [] op = "RemoveEntity" -> "SendDeleteRequestAsync"
      [] op = "AddUserToEntityMapping" -> "SendPostRequestAsync"
      [] op = "GetUserToEntityMappings" -> "SendGetRequestAsync"
      [] op = "GetUserToEntityMappingsForType" -> "SendGetRequestAsync"
      [] op = "GetEntityToUserMappings" -> "SendGetRequestAsync"
      [] op = "RemoveUserToEntityMapping" -> "SendDeleteRequestAsync"
      [] op = "AddGroupToEntityMapping" -> "SendPostRequestAsync"
      [] op = "GetGroupToEntityMappings" -> "SendGetRequestAsync"
      [] op = "GetGroupToEntityMappingsForType" -> "SendGetRequestAsync"
      [] op = "GetEntityToGroupMappings" -> "SendGetRequestAsync"
      [] op = "RemoveGroupToEntityMapping" -> "SendDeleteRequestAsync"
      [] op = "HasAccessToApplicationComponent" -> "SendGetRequestAsync"
      [] op = "HasAccessToEntity" -> "SendGetRequestAsync"
      [] op = "GetApplicationComponentsAccessibleByUser" -> "SendGetRequestAsync"
      [] op = "GetEntitiesAccessibleByUser" -> "SendGetRequestAsync"
      [] op = "GetEntitiesOfTypeAccessibleByUser" -> "SendGetRequestAsync"
      [] op = "GetApplicationComponentsAccessibleByGroup" -> "SendGetRequestAsync"
      [] op = "GetEntitiesAccessibleByGroup" -> "SendGetRequestAsync"
      [] op = "GetEntitiesOfTypeAccessibleByGroup" -> "SendGetRequestAsync"

\* The URL each operation builds from its arguments: the segments of its
\* template literal, each identifier through its stringifier and
\* encodeURIComponent, and the query string after the "?".
RequestUrl(op, args) ==
    CASE op = "GetUsers" ->
            AppendPathToBaseUrl(client,
                <<"users">>,
                "")
      [] op = "GetGroups" ->
            AppendPathToBaseUrl(client,
                <<"groups">>,
                "")
      [] op = "GetEntityTypes" ->
            AppendPathToBaseUrl(client,
                <<"entityTypes">>,
                "")
      [] op = "AddUser" ->
            AppendPathToBaseUrl(client,
                <<"users", UserSegment(args[1])>>,
                "")
      [] op = "ContainsUser" ->
            AppendPathToBaseUrl(client,
                <<"users", UserSegment(args[1])>>,
                "")
      [] op = "RemoveUser" ->
            AppendPathToBaseUrl(client,
                <<"users", UserSegment(args[1])>>,
                "")
      [] op = "AddGroup" ->
            AppendPathToBaseUrl(client,
                <<"groups", GroupSegment(args[1])>>,
                "")
      [] op = "ContainsGroup" ->
            AppendPathToBaseUrl(client,
                <<"groups", GroupSegment(args[1])>>,
                "")
      [] op = "RemoveGroup" ->
            AppendPathToBaseUrl(client,
                <<"groups", GroupSegment(args[1])>>,
                "")
      [] op = "AddUserToGroupMapping" ->
            AppendPathToBaseUrl(client,
                <<"userToGroupMappings", "user", UserSegment(args[1]),
                  "group", GroupSegment(args[2])>>,
                "")
      [] op = "GetUserToGroupMappings" ->
            AppendPathToBaseUrl(client,
                <<"userToGroupMappings", "user", UserSegment(args[1])>>,
                "includeIndirectMappings=" \o TemplateString(args[2]))
      [] op = "GetGroupToUserMappings" ->
            AppendPathToBaseUrl(client,
                <<"userToGroupMappings", "group", GroupSegment(args[1])>>,
                "includeIndirectMappings=" \o TemplateString(args[2]))
      [] op = "RemoveUserToGroupMapping" ->
            AppendPathToBaseUrl(client,
                <<"userToGroupMappings", "user", UserSegment(args[1]),
                  "group", GroupSegment(args[2])>>,
                "")
      [] op = "AddGroupToGroupMapping" ->
            AppendPathToBaseUrl(client,
                <<"groupToGroupMappings", "fromGroup", GroupSegment(args[1]),
                  "toGroup", GroupSegment(args[2])>>,
                "")
      [] op = "GetGroupToGroupMappings" ->
            AppendPathToBaseUrl(client,
                <<"groupToGroupMappings", "group", GroupSegment(args[1])>>,
                "includeIndirectMappings=" \o TemplateString(args[2]))
      [] op = "GetGroupToGroupReverseMappings" ->
            AppendPathToBaseUrl(client,
                <<"groupToGroupReverseMappings", "group",
                  GroupSegment(args[1])>>,
                "includeIndirectMappings=" \o TemplateString(args[2]))
      [] op = "RemoveGroupToGroupMapping" ->
            AppendPathToBaseUrl(client,
                <<"groupToGroupMappings", "fromGroup", GroupSegment(args[1]),
                  "toGroup", GroupSegment(args[2])>>,
                "")
      [] op = "AddUserToApplicationComponentAndAccessLevelMapping" ->
            AppendPathToBaseUrl(client,
                <<"userToApplicationComponentAndAccessLevelMappings", "user",
                  UserSegment(args[1]), "applicationComponent",
                  ApplicationComponentSegment(args[2]), "accessLevel",
                  AccessLevelSegment(args[3])>>,
                "")
      [] op = "GetUserToApplicationComponentAndAccessLevelMappings" ->
            AppendPathToBaseUrl(client,
                <<"userToApplicationComponentAndAccessLevelMappings", "user",
                  UserSegment(args[1])>>,
                "includeIndirectMappings=false")
      [] op = "GetApplicationComponentAndAccessLevelToUserMappings" ->
            AppendPathToBaseUrl(client,
                <<"userToApplicationComponentAndAccessLevelMappings",
                  "applicationComponent",
                  ApplicationComponentSegment(args[1]), "accessLevel",
                  AccessLevelSegment(args[2])>>,
                "includeIndirectMappings=" \o TemplateString(args[3]))
      [] op = "RemoveUserToApplicationComponentAndAccessLevelMapping" ->
            AppendPathToBaseUrl(client,
                <<"userToApplicationComponentAndAccessLevelMappings", "user",
                  UserSegment(args[1]), "applicationComponent",
                  ApplicationComponentSegment(args[2]), "accessLevel",
                  AccessLevelSegment(args[3])>>,
                "")
      [] op = "AddGroupToApplicationComponentAndAccessLevelMapping" ->
            AppendPathToBaseUrl(client,
                <<"groupToApplicationComponentAndAccessLevelMappings",
                  "group", GroupSegment(args[1]), "applicationComponent",
                  ApplicationComponentSegment(args[2]), "accessLevel",
                  AccessLevelSegment(args[3])>>,
                "")
      [] op = "GetGroupToApplicationComponentAndAccessLevelMappings" ->
            AppendPathToBaseUrl(client,
                <<"groupToApplicationComponentAndAccessLevelMappings",
                  "group", GroupSegment(args[1])>>,
                "includeIndirectMappings=false")
      [] op = "GetApplicationComponentAndAccessLevelToGroupMappings" ->
            AppendPathToBaseUrl(client,
                <<"groupToApplicationComponentAndAccessLevelMappings",
                  "applicationComponent",
                  ApplicationComponentSegment(args[1]), "accessLevel",
                  AccessLevelSegment(args[2])>>,
                "includeIndirectMappings=" \o TemplateString(args[3]))
      [] op = "RemoveGroupToApplicationComponentAndAccessLevelMapping" ->
            AppendPathToBaseUrl(client,
                <<"groupToApplicationComponentAndAccessLevelMappings",
                  "group", GroupSegment(args[1]), "applicationComponent",
                  ApplicationComponentSegment(args[2]), "accessLevel",
                  AccessLevelSegment(args[3])>>,
                "")
      [] op = "AddEntityType" ->
            AppendPathToBaseUrl(client,
                <<"entityTypes", EncodeURIComponent(args[1])>>,
                "")
      [] op = "ContainsEntityType" ->
            AppendPathToBaseUrl(client,
                <<"entityTypes", EncodeURIComponent(args[1])>>,
                "")
      [] op = "RemoveEntityType" ->
            AppendPathToBaseUrl(client,
                <<"entityTypes", EncodeURIComponent(args[1])>>,
                "")
      [] op = "AddEntity" ->
            AppendPathToBaseUrl(client,
                <<"entityTypes", EncodeURIComponent(args[1]), "entities",
                  EncodeURIComponent(args[2])>>,
                "")
      [] op = "GetEntities" ->
            AppendPathToBaseUrl(client,
                <<"entityTypes", EncodeURIComponent(args[1]), "entities">>,
                "")
      [] op = "ContainsEntity" ->
            AppendPathToBaseUrl(client,
                <<"entityTypes", EncodeURIComponent(args[1]), "entities",
                  EncodeURIComponent(args[2])>>,
                "")
      [] op = "RemoveEntity" ->
            AppendPathToBaseUrl(client,
                <<"entityTypes", EncodeURIComponent(args[1]), "entities",
                  EncodeURIComponent(args[2])>>,
                "")
      [] op = "AddUserToEntityMapping" ->
            AppendPathToBaseUrl(client,
                <<"userToEntityMappings", "user", UserSegment(args[1]),
                  "entityType", EncodeURIComponent(args[2]), "entity",
                  EncodeURIComponent(args[3])>>,
                "")
      [] op = "GetUserToEntityMappings" ->
            AppendPathToBaseUrl(client,
                <<"userToEntityMappings", "user", UserSegment(args[1])>>,
                "includeIndirectMappings=false")
      [] op = "GetUserToEntityMappingsForType" ->
            AppendPathToBaseUrl(client,
                <<"userToEntityMappings", "user", UserSegment(args[1]),
                  "entityType", EncodeURIComponent(args[2])>>,
                "includeIndirectMappings=false")
      [] op = "GetEntityToUserMappings" ->
            AppendPathToBaseUrl(client,
                <<"userToEntityMappings", "entityType",
                  EncodeURIComponent(args[1]), "entity",
                  EncodeURIComponent(args[2])>>,
                "includeIndirectMappings=" \o TemplateString(args[3]))
      [] op = "RemoveUserToEntityMapping" ->
            AppendPathToBaseUrl(client,
                <<"userToEntityMappings", "user", UserSegment(args[1]),
                  "entityType", EncodeURIComponent(args[2]), "entity",
                  EncodeURIComponent(args[3])>>,
                "")
      [] op = "AddGroupToEntityMapping" ->
            AppendPathToBaseUrl(client,
                <<"groupToEntityMappings", "group", GroupSegment(args[1]),
                  "entityType", EncodeURIComponent(args[2]), "entity",
                  EncodeURIComponent(args[3])>>,
                "")
      [] op = "GetGroupToEntityMappings" ->
            AppendPathToBaseUrl(client,
                <<"groupToEntityMappings", "group", GroupSegment(args[1])>>,
                "includeIndirectMappings=false")
      [] op = "GetGroupToEntityMappingsForType" ->
            AppendPathToBaseUrl(client,
                <<"groupToEntityMappings", "group", GroupSegment(args[1]),
                  "entityType", EncodeURIComponent(args[2])>>,
                "includeIndirectMappings=false")
      [] op = "GetEntityToGroupMappings" ->
            AppendPathToBaseUrl(client,
                <<"groupToEntityMappings", "entityType",
                  EncodeURIComponent(args[1]), "entity",
                  EncodeURIComponent(args[2])>>,
                "includeIndirectMappings=" \o TemplateString(args[3]))
      [] op = "RemoveGroupToEntityMapping" ->
            AppendPathToBaseUrl(client,
                <<"groupToEntityMappings", "group", GroupSegment(args[1]),
                  "entityType", EncodeURIComponent(args[2]), "entity",
                  EncodeURIComponent(args[3])>>,
                "")
      [] op = "HasAccessToApplicationComponent" ->
            AppendPathToBaseUrl(client,
                <<"dataElementAccess", "applicationComponent", "user",
                  UserSegment(args[1]), "applicationComponent",
                  ApplicationComponentSegment(args[2]), "accessLevel",
                  AccessLevelSegment(args[3])>>,
                "")
      [] op = "HasAccessToEntity" ->
            AppendPathToBaseUrl(client,
                <<"dataElementAccess", "entity", "user", UserSegment(args[1]),
                  "entityType", EncodeURIComponent(args[2]), "entity",
                  EncodeURIComponent(args[3])>>,
                "")
      [] op = "GetApplicationComponentsAccessibleByUser" ->
            AppendPathToBaseUrl(client,
                <<"userToApplicationComponentAndAccessLevelMappings", "user",
                  UserSegment(args[1])>>,
                "includeIndirectMappings=true")
      [] op = "GetEntitiesAccessibleByUser" ->
            AppendPathToBaseUrl(client,
                <<"userToEntityMappings", "user", UserSegment(args[1])>>,
                "includeIndirectMappings=true")
      [] op = "GetEntitiesOfTypeAccessibleByUser" ->
            AppendPathToBaseUrl(client,
                <<"userToEntityMappings", "user", UserSegment(args[1]),
                  "entityType", EncodeURIComponent(args[2])>>,
                "includeIndirectMappings=true")
      [] op = "GetApplicationComponentsAccessibleByGroup" ->
            AppendPathToBaseUrl(client,
                <<"groupToApplicationComponentAndAccessLevelMappings",
                  "group", GroupSegment(args[1])>>,
                "includeIndirectMappings=true")
      [] op = "GetEntitiesAccessibleByGroup" ->
            AppendPathToBaseUrl(client,
                <<"groupToEntityMappings", "group", GroupSegment(args[1])>>,
                "includeIndirectMappings=true")
      [] op = "GetEntitiesOfTypeAccessibleByGroup" ->
            AppendPathToBaseUrl(client,
                <<"groupToEntityMappings", "group", GroupSegment(args[1]),
                  "entityType", EncodeURIComponent(args[2])>>,
                "includeIndirectMappings=true")

\* An operation up to the await of its primitive: the URL is built and the
\* request is handed to the transport with the client's requestConfig.
Begin(op, args, url) ==
    /\ call.pc = "idle"
    /\ nCalls < MaxCalls
    /\ nCalls' = nCalls + 1
    /\ call' = [Idle EXCEPT !.pc = "awaiting", !.op = op, !.args = args,
                            !.primitive = OperationPrimitive(op),
                            !.url = url,
                            !.requests = <<[method |-> PrimitiveMethod(OperationPrimitive(op)),
                                            url |-> Href(url),
                                            config |-> client.requestConfig]>>]
    /\ UNCHANGED <<client, inFlight>>

\* The operations: each builds its URL and awaits its primitive.
GetUsers ==
    Begin("GetUsers", <<>>,
          RequestUrl("GetUsers", <<>>))

GetGroups ==
    Begin("GetGroups", <<>>,
          RequestUrl("GetGroups", <<>>))

GetEntityTypes ==
    Begin("GetEntityTypes", <<>>,
          RequestUrl("GetEntityTypes", <<>>))

AddUser(user) ==
    Begin("AddUser", <<user>>,
          RequestUrl("AddUser", <<user>>))

ContainsUser(user) ==
    Begin("ContainsUser", <<user>>,
          RequestUrl("ContainsUser", <<user>>))

RemoveUser(user) ==
    Begin("RemoveUser", <<user>>,
          RequestUrl("RemoveUser", <<user>>))

AddGroup(group) ==
    Begin("AddGroup", <<group>>,
          RequestUrl("AddGroup", <<group>>))

ContainsGroup(group) ==
    Begin("ContainsGroup", <<group>>,
          RequestUrl("ContainsGroup", <<group>>))

RemoveGroup(group) ==
    Begin("RemoveGroup", <<group>>,
          RequestUrl("RemoveGroup", <<group>>))

AddUserToGroupMapping(user, group) ==
    Begin("AddUserToGroupMapping", <<user, group>>,
          RequestUrl("AddUserToGroupMapping", <<user, group>>))

\* GetUserToGroupMappings with true for the flag, whatever the caller passes.
GetUserToGroupMappings_AlwaysIndirect(user, includeIndirectMappings) ==
    Begin("GetUserToGroupMappings", <<user, Bool(includeIndirectMappings)>>,
          RequestUrl("GetUserToGroupMappings", <<user, Bool(TRUE)>>))

GetUserToGroupMappings(user, includeIndirectMappings) ==
    Begin("GetUserToGroupMappings", <<user, Bool(includeIndirectMappings)>>,
          RequestUrl("GetUserToGroupMappings", <<user, Bool(includeIndirectMappings)>>))

GetGroupToUserMappings(group, includeIndirectMappings) ==
    Begin("GetGroupToUserMappings", <<group, Bool(includeIndirectMappings)>>,
          RequestUrl("GetGroupToUserMappings", <<group, Bool(includeIndirectMappings)>>))

RemoveUserToGroupMapping(user, group) ==
    Begin("RemoveUserToGroupMapping", <<user, group>>,
          RequestUrl("RemoveUserToGroupMapping", <<user, group>>))

AddGroupToGroupMapping(fromGroup, toGroup) ==
    Begin("AddGroupToGroupMapping", <<fromGroup, toGroup>>,
          RequestUrl("AddGroupToGroupMapping", <<fromGroup, toGroup>>))

GetGroupToGroupMappings(group, includeIndirectMappings) ==
    Begin("GetGroupToGroupMappings", <<group, Bool(includeIndirectMappings)>>,
          RequestUrl("GetGroupToGroupMappings", <<group, Bool(includeIndirectMappings)>>))

GetGroupToGroupReverseMappings(group, includeIndirectMappings) ==
    Begin("GetGroupToGroupReverseMappings", <<group, Bool(includeIndirectMappings)>>,
          RequestUrl("GetGroupToGroupReverseMappings", <<group, Bool(includeIndirectMappings)>>))

\* RemoveGroupToGroupMapping with the two groups in each other's place.
RemoveGroupToGroupMapping_SwappedGroups(fromGroup, toGroup) ==
    Begin("RemoveGroupToGroupMapping", <<fromGroup, toGroup>>,
          RequestUrl("RemoveGroupToGroupMapping", <<toGroup, fromGroup>>))

RemoveGroupToGroupMapping(fromGroup, toGroup) ==
    Begin("RemoveGroupToGroupMapping", <<fromGroup, toGroup>>,
          RequestUrl("RemoveGroupToGroupMapping", <<fromGroup, toGroup>>))

AddUserToApplicationComponentAndAccessLevelMapping(user, applicationComponent, accessLevel) ==
    Begin("AddUserToApplicationComponentAndAccessLevelMapping", <<user, applicationComponent, accessLevel>>,
          RequestUrl("AddUserToApplicationComponentAndAccessLevelMapping", <<user, applicationComponent, accessLevel>>))

GetUserToApplicationComponentAndAccessLevelMappings(user) ==
    Begin("GetUserToApplicationComponentAndAccessLevelMappings", <<user>>,
          RequestUrl("GetUserToApplicationComponentAndAccessLevelMappings", <<user>>))

GetApplicationComponentAndAccessLevelToUserMappings(applicationComponent, accessLevel, includeIndirectMappings) ==
    Begin("GetApplicationComponentAndAccessLevelToUserMappings", <<applicationComponent, accessLevel, Bool(includeIndirectMappings)>>,
          RequestUrl("GetApplicationComponentAndAccessLevelToUserMappings", <<applicationComponent, accessLevel, Bool(includeIndirectMappings)>>))

RemoveUserToApplicationComponentAndAccessLevelMapping(user, applicationComponent, accessLevel) ==
    Begin("RemoveUserToApplicationComponentAndAccessLevelMapping", <<user, applicationComponent, accessLevel>>,
          RequestUrl("RemoveUserToApplicationComponentAndAccessLevelMapping", <<user, applicationComponent, accessLevel>>))

AddGroupToApplicationComponentAndAccessLevelMapping(group, applicationComponent, accessLevel) ==
    Begin("AddGroupToApplicationComponentAndAccessLevelMapping", <<group, applicationComponent, accessLevel>>,
          RequestUrl("AddGroupToApplicationComponentAndAccessLevelMapping", <<group, applicationComponent, accessLevel>>))

GetGroupToApplicationComponentAndAccessLevelMappings(group) ==
    Begin("GetGroupToApplicationComponentAndAccessLevelMappings", <<group>>,
          RequestUrl("GetGroupToApplicationComponentAndAccessLevelMappings", <<group>>))

GetApplicationComponentAndAccessLevelToGroupMappings(applicationComponent, accessLevel, includeIndirectMappings) ==
    Begin("GetApplicationComponentAndAccessLevelToGroupMappings", <<applicationComponent, accessLevel, Bool(includeIndirectMappings)>>,
          RequestUrl("GetApplicationComponentAndAccessLevelToGroupMappings", <<applicationComponent, accessLevel, Bool(includeIndirectMappings)>>))

RemoveGroupToApplicationComponentAndAccessLevelMapping(group, applicationComponent, accessLevel) ==
    Begin("RemoveGroupToApplicationComponentAndAccessLevelMapping", <<group, applicationComponent, accessLevel>>,
          RequestUrl("RemoveGroupToApplicationComponentAndAccessLevelMapping", <<group, applicationComponent, accessLevel>>))

AddEntityType(entityType) ==
    Begin("AddEntityType", <<entityType>>,
          RequestUrl("AddEntityType", <<entityType>>))

ContainsEntityType(entityType) ==
    Begin("ContainsEntityType", <<entityType>>,
          RequestUrl("ContainsEntityType", <<entityType>>))

RemoveEntityType(entityType) ==
    Begin("RemoveEntityType", <<entityType>>,
          RequestUrl("RemoveEntityType", <<entityType>>))

AddEntity(entityType, entity) ==
    Begin("AddEntity", <<entityType, entity>>,
          RequestUrl("AddEntity", <<entityType, entity>>))

GetEntities(entityType) ==
    Begin("GetEntities", <<entityType>>,
          RequestUrl("GetEntities", <<entityType>>))

ContainsEntity(entityType, entity) ==
    Begin("ContainsEntity", <<entityType, entity>>,
          RequestUrl("ContainsEntity", <<entityType, entity>>))

RemoveEntity(entityType, entity) ==
    Begin("RemoveEntity", <<entityType, entity>>,
          RequestUrl("RemoveEntity", <<entityType, entity>>))

AddUserToEntityMapping(user, entityType, entity) ==
    Begin("AddUserToEntityMapping", <<user, entityType, entity>>,
          RequestUrl("AddUserToEntityMapping", <<user, entityType, entity>>))

GetUserToEntityMappings(user) ==
    Begin("GetUserToEntityMappings", <<user>>,
          RequestUrl("GetUserToEntityMappings", <<user>>))

GetUserToEntityMappingsForType(user, entityType) ==
    Begin("GetUserToEntityMappingsForType", <<user, entityType>>,
          RequestUrl("GetUserToEntityMappingsForType", <<user, entityType>>))

GetEntityToUserMappings(entityType, entity, includeIndirectMappings) ==
    Begin("GetEntityToUserMappings", <<entityType, entity, Bool(includeIndirectMappings)>>,
          RequestUrl("GetEntityToUserMappings", <<entityType, entity, Bool(includeIndirectMappings)>>))

RemoveUserToEntityMapping(user, entityType, entity) ==
    Begin("RemoveUserToEntityMapping", <<user, entityType, entity>>,
          RequestUrl("RemoveUserToEntityMapping", <<user, entityType, entity>>))

AddGroupToEntityMapping(group, entityType, entity) ==
    Begin("AddGroupToEntityMapping", <<group, entityType, entity>>,
          RequestUrl("AddGroupToEntityMapping", <<group, entityType, entity>>))

GetGroupToEntityMappings(group) ==
    Begin("GetGroupToEntityMappings", <<group>>,
          RequestUrl("GetGroupToEntityMappings", <<group>>))

\* GetGroupToEntityMappingsForType with the URL of
\* GetEntitiesOfTypeAccessibleByGroup.
GetGroupToEntityMappingsForType_Indirect(group, entityType) ==
    Begin("GetGroupToEntityMappingsForType", <<group, entityType>>,
          RequestUrl("GetEntitiesOfTypeAccessibleByGroup", <<group, entityType>>))

GetGroupToEntityMappingsForType(group, entityType) ==
    Begin("GetGroupToEntityMappingsForType", <<group, entityType>>,
          RequestUrl("GetGroupToEntityMappingsForType", <<group, entityType>>))

GetEntityToGroupMappings(entityType, entity, includeIndirectMappings) ==
    Begin("GetEntityToGroupMappings", <<entityType, entity, Bool(includeIndirectMappings)>>,
          RequestUrl("GetEntityToGroupMappings", <<entityType, entity, Bool(includeIndirectMappings)>>))

RemoveGroupToEntityMapping(group, entityType, entity) ==
    Begin("RemoveGroupToEntityMapping", <<group, entityType, entity>>,
          RequestUrl("RemoveGroupToEntityMapping", <<group, entityType, entity>>))

HasAccessToApplicationComponent(user, applicationComponent, accessLevel) ==
    Begin("HasAccessToApplicationComponent", <<user, applicationComponent, accessLevel>>,
          RequestUrl("HasAccessToApplicationComponent", <<user, applicationComponent, accessLevel>>))

HasAccessToEntity(user, entityType, entity) ==
    Begin("HasAccessToEntity", <<user, entityType, entity>>,
          RequestUrl("HasAccessToEntity", <<user, entityType, entity>>))

GetApplicationComponentsAccessibleByUser(user) ==
    Begin("GetApplicationComponentsAccessibleByUser", <<user>>,
          RequestUrl("GetApplicationComponentsAccessibleByUser", <<user>>))

\* GetEntitiesAccessibleByUser with the URL of GetUserToEntityMappings.
GetEntitiesAccessibleByUser_DirectOnly(user) ==
    Begin("GetEntitiesAccessibleByUser", <<user>>,
          RequestUrl("GetUserToEntityMappings", <<user>>))

GetEntitiesAccessibleByUser(user) ==
    Begin("GetEntitiesAccessibleByUser", <<user>>,
          RequestUrl("GetEntitiesAccessibleByUser", <<user>>))

GetEntitiesOfTypeAccessibleByUser(user, entityType) ==
    Begin("GetEntitiesOfTypeAccessibleByUser", <<user, entityType>>,
          RequestUrl("GetEntitiesOfTypeAccessibleByUser", <<user, entityType>>))

GetApplicationComponentsAccessibleByGroup(group) ==
    Begin("GetApplicationComponentsAccessibleByGroup", <<group>>,
          RequestUrl("GetApplicationComponentsAccessibleByGroup", <<group>>))

GetEntitiesAccessibleByGroup(group) ==
    Begin("GetEntitiesAccessibleByGroup", <<group>>,
          RequestUrl("GetEntitiesAccessibleByGroup", <<group>>))

GetEntitiesOfTypeAccessibleByGroup(group, entityType) ==
    Begin("GetEntitiesOfTypeAccessibleByGroup", <<group, entityType>>,
          RequestUrl("GetEntitiesOfTypeAccessibleByGroup", <<group, entityType>>))

\* The primitive an operation awaits, from the settlement of its request on.
PrimitiveOutcome(primitive, c, requestUrl, st) ==
    CASE primitive = "SendGetRequestAsync" -> SendGetRequestAsync(c, requestUrl, st)
      [] primitive = "SendGetRequestForContainsMethodAsync" ->
            SendGetRequestForContainsMethodAsync(c, requestUrl, st)
      [] primitive = "SendPostRequestAsync" -> SendPostRequestAsync(c, requestUrl, st)
      [] OTHER -> SendDeleteRequestAsync(c, requestUrl, st)

\* Settle with a second request after a failure.
Settle_ResendsOnFailure(st) ==
    /\ LET outcome == PrimitiveOutcome(call.primitive, client, call.url, st)
       IN call' = [call EXCEPT !.pc = "done", !.settlement = st, !.outcome = outcome,
                               !.result = OperationResult(client, call.op, outcome),
                               !.requests = IF outcome.kind = "throw"
                                            THEN call.requests \o call.requests
                                            ELSE call.requests]
    /\ UNCHANGED <<client, nCalls, inFlight>>

\* The rest of an operation once the transport has settled its request: the
\* primitive completes (outcome) and the operation builds its result from
\* what the primitive returned (result).
Settle(st) ==
    /\ LET outcome == PrimitiveOutcome(call.primitive, client, call.url, st)
       IN call' = [call EXCEPT !.pc = "done", !.settlement = st, !.outcome = outcome,
                               !.result = OperationResult(client, call.op, outcome)]
    /\ UNCHANGED <<client, nCalls, inFlight>>

\* Deliver with the status to error table emptied.
Deliver_ClearsErrorTable ==
    /\ call.pc = "done"
    /\ call' = Idle
    /\ client' = [client EXCEPT !.statusCodeToErrorThrowingFunctionMap = <<>>]
    /\ UNCHANGED <<nCalls, inFlight>>

\* The operation's promise settles: the caller has the result or the error,
\* and nothing of the invocation stays with the client.
Deliver ==
    /\ call.pc = "done"
    /\ call' = Idle
    /\ UNCHANGED <<client, nCalls, inFlight>>

TransportResolves ==
    /\ call.pc = "awaiting"
    /\ \E status \in Statuses :
        /\ ValidateStatus(client.requestConfig, status)
        /\ \E data \in Bodies : Settle(Resolved(status, data))

TransportRejectsWithStatus ==
    /\ call.pc = "awaiting"
    /\ \E status \in Statuses :
        /\ ~ValidateStatus(client.requestConfig, status)
        /\ \E data \in Bodies : Settle(RejectedWithStatus(status, data))

TransportRejectsWithoutResponse ==
    /\ call.pc = "awaiting"
    /\ Settle(RejectedWithoutResponse)

Next ==
    \/ GetUsers
    \/ GetGroups
    \/ GetEntityTypes
    \/ \E user \in Users : AddUser(user)
    \/ \E user \in Users : ContainsUser(user)
    \/ \E user \in Users : RemoveUser(user)
    \/ \E group \in Groups : AddGroup(group)
    \/ \E group \in Groups : ContainsGroup(group)
    \/ \E group \in Groups : RemoveGroup(group)
    \/ \E user \in Users, group \in Groups : AddUserToGroupMapping(user, group)
    \/ \E user \in Users, includeIndirectMappings \in BOOLEAN :
            GetUserToGroupMappings(user, includeIndirectMappings)
    \/ \E group \in Groups, includeIndirectMappings \in BOOLEAN :
            GetGroupToUserMappings(group, includeIndirectMappings)
    \/ \E user \in Users, group \in Groups :
            RemoveUserToGroupMapping(user, group)
    \/ \E fromGroup \in Groups, toGroup \in Groups :
            AddGroupToGroupMapping(fromGroup, toGroup)
    \/ \E group \in Groups, includeIndirectMappings \in BOOLEAN :
            GetGroupToGroupMappings(group, includeIndirectMappings)
    \/ \E group \in Groups, includeIndirectMappings \in BOOLEAN :
            GetGroupToGroupReverseMappings(group, includeIndirectMappings)
    \/ \E fromGroup \in Groups, toGroup \in Groups :
            RemoveGroupToGroupMapping(fromGroup, toGroup)
    \/ \E user \in Users, applicationComponent \in ApplicationComponents,
          accessLevel \in AccessLevels :
            AddUserToApplicationComponentAndAccessLevelMapping(user, applicationComponent, accessLevel)
    \/ \E user \in Users :
            GetUserToApplicationComponentAndAccessLevelMappings(user)
    \/ \E applicationComponent \in ApplicationComponents,
          accessLevel \in AccessLevels, includeIndirectMappings \in BOOLEAN :
            GetApplicationComponentAndAccessLevelToUserMappings(applicationComponent, accessLevel, includeIndirectMappings)
    \/ \E user \in Users, applicationComponent \in ApplicationComponents,
          accessLevel \in AccessLevels :
            RemoveUserToApplicationComponentAndAccessLevelMapping(user, applicationComponent, accessLevel)
    \/ \E group \in Groups, applicationComponent \in ApplicationComponents,
          accessLevel \in AccessLevels :
            AddGroupToApplicationComponentAndAccessLevelMapping(group, applicationComponent, accessLevel)
    \/ \E group \in Groups :
            GetGroupToApplicationComponentAndAccessLevelMappings(group)
    \/ \E applicationComponent \in ApplicationComponents,
          accessLevel \in AccessLevels, includeIndirectMappings \in BOOLEAN :
            GetApplicationComponentAndAccessLevelToGroupMappings(applicationComponent, accessLevel, includeIndirectMappings)
    \/ \E group \in Groups, applicationComponent \in ApplicationComponents,
          accessLevel \in AccessLevels :
            RemoveGroupToApplicationComponentAndAccessLevelMapping(group, applicationComponent, accessLevel)
    \/ \E entityType \in EntityTypes : AddEntityType(entityType)
    \/ \E entityType \in EntityTypes : ContainsEntityType(entityType)
    \/ \E entityType \in EntityTypes : RemoveEntityType(entityType)
    \/ \E entityType \in EntityTypes, entity \in Entities :
            AddEntity(entityType, entity)
    \/ \E entityType \in EntityTypes : GetEntities(entityType)
    \/ \E entityType \in EntityTypes, entity \in Entities :
            ContainsEntity(entityType, entity)
    \/ \E entityType \in EntityTypes, entity \in Entities :
            RemoveEntity(entityType, entity)
    \/ \E user \in Users, entityType \in EntityTypes, entity \in Entities :
            AddUserToEntityMapping(user, entityType, entity)
    \/ \E user \in Users : GetUserToEntityMappings(user)
    \/ \E user \in Users, entityType \in EntityTypes :
            GetUserToEntityMappingsForType(user, entityType)
    \/ \E entityType \in EntityTypes, entity \in Entities,
          includeIndirectMappings \in BOOLEAN :
            GetEntityToUserMappings(entityType, entity, includeIndirectMappings)
    \/ \E user \in Users, entityType \in EntityTypes, entity \in Entities :
            RemoveUserToEntityMapping(user, entityType, entity)
    \/ \E group \in Groups, entityType \in EntityTypes, entity \in Entities :
            AddGroupToEntityMapping(group, entityType, entity)
    \/ \E group \in Groups : GetGroupToEntityMappings(group)
    \/ \E group \in Groups, entityType \in EntityTypes :
            GetGroupToEntityMappingsForType(group, entityType)
    \/ \E entityType \in EntityTypes, entity \in Entities,
          includeIndirectMappings \in BOOLEAN :
            GetEntityToGroupMappings(entityType, entity, includeIndirectMappings)
    \/ \E group \in Groups, entityType \in EntityTypes, entity \in Entities :
            RemoveGroupToEntityMapping(group, entityType, entity)
    \/ \E user \in Users, applicationComponent \in ApplicationComponents,
          accessLevel \in AccessLevels :
            HasAccessToApplicationComponent(user, applicationComponent, accessLevel)
    \/ \E user \in Users, entityType \in EntityTypes, entity \in Entities :
            HasAccessToEntity(user, entityType, entity)
    \/ \E user \in Users : GetApplicationComponentsAccessibleByUser(user)
    \/ \E user \in Users : GetEntitiesAccessibleByUser(user)
    \/ \E user \in Users, entityType \in EntityTypes :
            GetEntitiesOfTypeAccessibleByUser(user, entityType)
    \/ \E group \in Groups : GetApplicationComponentsAccessibleByGroup(group)
    \/ \E group \in Groups : GetEntitiesAccessibleByGroup(group)
    \/ \E group \in Groups, entityType \in EntityTypes :
            GetEntitiesOfTypeAccessibleByGroup(group, entityType)
    \/ TransportResolves
    \/ TransportRejectsWithStatus
    \/ TransportRejectsWithoutResponse
    \/ Deliver

Spec == Init /\ [][Next]_vars

----------------------------------------------------------------------------
(* Properties.                                                               *)

Done == call.pc = "done"

ContainsOperations == {"ContainsUser", "ContainsGroup", "ContainsEntityType", "ContainsEntity"}

\* The status the transport delivered, as a resolved response's status or as
\* a rejected error's; Undefined when no response was received.
ReceivedStatus == call.settlement.status

\* The invocation went through HandleNonSuccessResponseStatus.
RoutedToErrorHandling ==
    Len(call.outcome.via) > 0 /\ call.outcome.via[1] = "HandleNonSuccessResponseStatus"

Raised == call.outcome.kind = "throw"

\* C1: each existence check (ContainsUser, ContainsGroup, ContainsEntityType,
\* ContainsEntity) sends its GET through SendGetRequestForContainsMethodAsync;
\* a 404 status gives false with no error raised, whatever the body, and a
\* 200 status gives true.
C1_ContainsChecks ==
    call.op \in ContainsOperations =>
        /\ call.primitive = "SendGetRequestForContainsMethodAsync"
        /\ Len(call.requests) = 1 /\ call.requests[1].method = "GET"
        /\ (Done /\ ReceivedStatus = Num(404)) =>
                (call.outcome.kind = "return" /\ call.outcome.value = Bool(FALSE))
        /\ (Done /\ ReceivedStatus = Num(200)) =>
                (call.outcome.kind = "return" /\ call.outcome.value = Bool(TRUE))

\* A ContainsEntity answered 404 with an EntityNotFoundException body has
\* returned false.
C1_Witness ==
    /\ Done /\ call.op = "ContainsEntity"
    /\ call.settlement = RejectedWithStatus(404,
            ErrorBody(Str("EntityNotFoundException"), Str("It failed."),
                      Arr(<<Attribute("EntityType", "ClientAccount"),
                            Attribute("Entity", "CompanyA")>>), Undefined))
    /\ call.outcome = Return(Bool(FALSE), <<>>)

\* C2: for SendGetRequestForContainsMethodAsync, every received status other
\* than 200 and 404, and every network failure, raises an error: the
\* primitive returns no boolean for it, whether the status came as a resolved
\* response or as a rejected error.
C2_ContainsRaisesOnOtherStatus ==
    (Done /\ call.primitive = "SendGetRequestForContainsMethodAsync"
          /\ ReceivedStatus \notin {Num(200), Num(404)}) => Raised

\* C3: SendGetRequestAsync returns the response body only when the received
\* status is 200; every other received status raises an error through
\* HandleNonSuccessResponseStatus, whether it came as a resolved response or
\* as a rejected error.
C3_GetReturnsBodyOnlyOn200 ==
    (Done /\ call.primitive = "SendGetRequestAsync") =>
        /\ call.outcome.kind = "return" => ReceivedStatus = Num(200)
        /\ ReceivedStatus \notin {Num(200), Undefined} => (Raised /\ RoutedToErrorHandling)

\* C4: SendPostRequestAsync completes without error if and only if the
\* received status is 201; every other received status goes through
\* HandleNonSuccessResponseStatus and raises an error.
C4_PostSucceedsOnlyOn201 ==
    (Done /\ call.primitive = "SendPostRequestAsync") =>
        /\ call.outcome.kind = "return" <=> ReceivedStatus = Num(201)
        /\ call.outcome.kind \in {"return", "throw"}
        /\ ReceivedStatus \notin {Num(201), Undefined} => (Raised /\ RoutedToErrorHandling)

\* An AddUser whose request resolved with status 200 has raised an error
\* out of HandleNonSuccessResponseStatus.
C4_Witness ==
    /\ Done /\ call.op = "AddUser"
    /\ call.settlement.kind = "resolved" /\ ReceivedStatus = Num(200)
    /\ Raised /\ RoutedToErrorHandling

\* C5: SendDeleteRequestAsync completes without error if and only if the
\* received status is 200; every other received status goes through
\* HandleNonSuccessResponseStatus and raises an error.
C5_DeleteSucceedsOnlyOn200 ==
    (Done /\ call.primitive = "SendDeleteRequestAsync") =>
        /\ call.outcome.kind = "return" <=> ReceivedStatus = Num(200)
        /\ call.outcome.kind \in {"return", "throw"}
        /\ ReceivedStatus \notin {Num(200), Undefined} => (Raised /\ RoutedToErrorHandling)

\* A RemoveUser whose request resolved with status 204 has raised an error
\* out of HandleNonSuccessResponseStatus.
C5_Witness ==
    /\ Done /\ call.op = "RemoveUser"
    /\ call.settlement.kind = "resolved" /\ ReceivedStatus = Num(204)
    /\ Raised /\ RoutedToErrorHandling

Decoded == DeserializeResponseDataToHttpErrorResponse(call.settlement.data)

\* The element type each element-not-found code stands for.
ElementTypeOfCode(code) ==
    CASE code = "UserNotFoundException" -> "User"
      [] code = "GroupNotFoundException" -> "Group"
      [] code = "EntityTypeNotFoundException" -> "EntityType"
      [] OTHER -> "Entity"

\* The value of the first attribute of a record with a name, "" without one.
AttributeOf(rec, name) ==
    LET named == {i \in DOMAIN rec.Attributes : rec.Attributes[i].Name = Str(name)}
    IN IF named = {} THEN Str("")
       ELSE rec.Attributes[CHOOSE i \in named : \A j \in named : i <= j].Value

\* m, the parts of a message, has s among them.
Embeds(m, s) == \E i \in DOMAIN m : m[i] = s

\* C7: for status 404 with a decoded record whose code is one of
\* UserNotFoundException, GroupNotFoundException, EntityTypeNotFoundException,
\* EntityNotFoundException, the error raised is an ElementNotFoundError whose
\* element type is User, Group, EntityType, Entity respectively and whose
\* element value is the value of the attribute of that name, or "" when the
\* record has no such attribute.
C7_ElementNotFoundFor404 ==
    \A code \in KnownNotFoundCodes :
        (Done /\ RoutedToErrorHandling /\ ReceivedStatus = Num(404)
              /\ Decoded.r = "record" /\ Decoded.rec.Code = Str(code)) =>
            /\ Raised
            /\ call.outcome.error.class = "ElementNotFoundError"
            /\ ElementType(call.outcome.error) = Str(ElementTypeOfCode(code))
            /\ ElementValue(call.outcome.error) = AttributeOf(Decoded.rec, ElementTypeOfCode(code))

\* A RemoveUser answered 404 with code UserNotFoundException and attributes
\* [Group=admins, User=bob] has raised ElementNotFound{User, bob}.
C7_Witness ==
    /\ Done /\ call.op = "RemoveUser"
    /\ ReceivedStatus = Num(404)
    /\ call.settlement.data =
            ErrorBody(Str("UserNotFoundException"), Str("It failed."),
                      Arr(<<Attribute("Group", "admins"), Attribute("User", "bob")>>), Undefined)
    /\ Raised
    /\ call.outcome.error.class = "ElementNotFoundError"
    /\ ElementType(call.outcome.error) = Str("User")
    /\ ElementValue(call.outcome.error) = Str("bob")

\* C8: for status 404 with a decoded record whose code is none of the four
\* element-not-found codes, the error raised is a NotFoundError that is no
\* ElementNotFoundError, and its resource id is the value of the attribute
\* ResourceId, or "" when the record has no such attribute.
C8_NotFoundForOtherCodes ==
    (Done /\ RoutedToErrorHandling /\ ReceivedStatus = Num(404)
          /\ Decoded.r = "record"
          /\ Decoded.rec.Code \notin {Str(code) : code \in KnownNotFoundCodes}) =>
        /\ Raised
        /\ InstanceOf(call.outcome.error, "NotFoundError")
        /\ ~InstanceOf(call.outcome.error, "ElementNotFoundError")
        /\ ElementType(call.outcome.error) = Undefined
        /\ ResourceId(call.outcome.error) = AttributeOf(Decoded.rec, "ResourceId")

\* An AddGroup answered 404 with code ArgumentException and attributes
\* [ResourceId=xyz] has raised NotFound{xyz}.
C8_Witness ==
    /\ Done /\ call.op = "AddGroup"
    /\ ReceivedStatus = Num(404)
    /\ call.settlement.data =
            ErrorBody(Str("ArgumentException"), Str("It failed."),
                      Arr(<<Attribute("ResourceId", "xyz")>>), Undefined)
    /\ Raised
    /\ call.outcome.error.class = "NotFoundError"
    /\ ResourceId(call.outcome.error) = Str("xyz")

\* C9: for every status other than 404 that reaches error handling with a
\* decoded record, the error raised is a plain Error whose message has the
\* record's code and message in it; it is no NotFoundError and no
\* ElementNotFoundError, whatever the code.
C9_GenericErrorForOtherStatuses ==
    (Done /\ RoutedToErrorHandling /\ ReceivedStatus # Num(404) /\ Decoded.r = "record") =>
        /\ Raised
        /\ call.outcome.error.class = "Error"
        /\ ~InstanceOf(call.outcome.error, "NotFoundError")
        /\ Embeds(call.outcome.error.message, TemplateString(Decoded.rec.Code))
        /\ Embeds(call.outcome.error.message, TemplateString(Decoded.rec.Message))
        /\ Embeds(call.outcome.error.message, TemplateString(ReceivedStatus))

\* A RemoveGroup answered 500 with code GroupNotFoundException has raised a
\* plain Error naming the code.
C9_Witness ==
    /\ Done /\ call.op = "RemoveGroup"
    /\ ReceivedStatus = Num(500)
    /\ Decoded.r = "record" /\ Decoded.rec.Code = Str("GroupNotFoundException")
    /\ Raised
    /\ call.outcome.error.class = "Error"
    /\ Embeds(call.outcome.error.message, "GroupNotFoundException")

\* The body is absent, is no object, or has no nested error object carrying
\* code and message.
Unstructured(data) ==
    \/ IsNullish(data)
    \/ data.t # "object"
    \/ "error" \notin DOMAIN data.v
    \/ data.v["error"].t # "object"
    \/ ~({"code", "message"} \subseteq DOMAIN data.v["error"].v)

\* C10: for every status that reaches HandleNonSuccessResponseStatus with a
\* body that is absent, is no object or has no nested error object carrying
\* code and message (error null, an array or no object included), the error
\* raised is the plain Error of the unstructured failure: its message has the
\* status and a rendering of the body, or the status and no body detail for
\* an undefined or null body.
C10_UnstructuredFailure ==
    (Done /\ RoutedToErrorHandling /\ Unstructured(call.settlement.data)) =>
        /\ Raised
        /\ call.outcome.error.class = "Error"
        /\ LET base == BaseExceptionMessage(call.requests[1].method, call.url, ReceivedStatus)
               data == call.settlement.data
           IN IF IsNullish(data)
              THEN call.outcome.error.message = base \o <<".">>
              ELSE call.outcome.error.message =
                       base \o <<", and response body '",
                                 IF TypeOf(data) = "object"
                                 THEN JsonStringify(data) ELSE TemplateString(data),
                                 "'.">>

----------------------------------------------------------------------------
(* The URLs of the queries.                                                  *)

\* The queries that take includeIndirectMappings from their caller, as their
\* last parameter.
FlaggedQueries ==
    {"GetUserToGroupMappings", "GetGroupToUserMappings",
     "GetGroupToGroupMappings", "GetGroupToGroupReverseMappings",
     "GetApplicationComponentAndAccessLevelToUserMappings",
     "GetApplicationComponentAndAccessLevelToGroupMappings",
     "GetEntityToUserMappings", "GetEntityToGroupMappings"}

Issued == call.pc \in {"awaiting", "done"}

\* C11: for each query that takes includeIndirectMappings, the query string
\* of the URL handed to the transport is exactly includeIndirectMappings=true
\* when the caller passed true and includeIndirectMappings=false when the
\* caller passed false, and the URL ends with "?" and that query string.
C11_FlagInQueryString ==
    (Issued /\ call.op \in FlaggedQueries) =>
        LET includeIndirectMappings == call.args[Len(call.args)].v
            query == IF includeIndirectMappings
                     THEN "includeIndirectMappings=true"
                     ELSE "includeIndirectMappings=false"
        IN /\ call.url.query = query
           /\ call.requests[1].url =
                call.url.origin \o JoinPath(call.url.path, 1) \o "?" \o query

\* GetGroupToGroupMappings was called with false and its request, with
\* includeIndirectMappings=false as the query string, has been answered.
C11_Witness ==
    /\ Done
    /\ call.op = "GetGroupToGroupMappings"
    /\ call.args[2] = Bool(FALSE)
    /\ call.url.query = "includeIndirectMappings=false"
    /\ call.requests[1].url =
            "http://x/api/v1/groupToGroupMappings/group/admins?includeIndirectMappings=false"

\* The query of the mappings an 'accessible by' operation sends its request
\* to.
DirectQuery(op) ==
    CASE op = "GetApplicationComponentsAccessibleByUser" ->
            "GetUserToApplicationComponentAndAccessLevelMappings"
      [] op = "GetApplicationComponentsAccessibleByGroup" ->
            "GetGroupToApplicationComponentAndAccessLevelMappings"
      [] op = "GetEntitiesAccessibleByUser" -> "GetUserToEntityMappings"
      [] op = "GetEntitiesAccessibleByGroup" -> "GetGroupToEntityMappings"
      [] op = "GetEntitiesOfTypeAccessibleByUser" -> "GetUserToEntityMappingsForType"
      [] op = "GetEntitiesOfTypeAccessibleByGroup" -> "GetGroupToEntityMappingsForType"

\* C12: each operation of the 'accessible by' family sends
\* includeIndirectMappings=true, and its URL is the URL of the direct query
\* of the same mappings for the same arguments, which sends
\* includeIndirectMappings=false: origin and path are the same and only the
\* value of the flag differs.
C12_AccessibleByUsesDirectUrlWithTrue ==
    (Issued /\ call.op \in SetOperations) =>
        LET direct == RequestUrl(DirectQuery(call.op), call.args)
        IN /\ call.url.query = "includeIndirectMappings=true"
           /\ direct.query = "includeIndirectMappings=false"
           /\ call.url = [direct EXCEPT !.query = "includeIndirectMappings=true"]
           /\ call.requests[1].url = Href([direct EXCEPT !.query = "includeIndirectMappings=true"])

\* GetEntitiesOfTypeAccessibleByGroup has been answered for a request to the
\* URL of GetGroupToEntityMappingsForType with the flag true.
C12_Witness ==
    /\ Done
    /\ call.op = "GetEntitiesOfTypeAccessibleByGroup"
    /\ call.requests[1].url =
            "http://x/api/v1/groupToEntityMappings/group/admins/entityType/ClientAccount?includeIndirectMappings=true"
    /\ Href(RequestUrl("GetGroupToEntityMappingsForType", call.args)) =
            "http://x/api/v1/groupToEntityMappings/group/admins/entityType/ClientAccount?includeIndirectMappings=false"

----------------------------------------------------------------------------
(* The results of the queries.                                               *)

\* The request was answered with status 200 and an array of objects.
AnsweredWithArrayOfObjects ==
    /\ Done
    /\ call.settlement.kind = "resolved"
    /\ call.settlement.status = Num(200)
    /\ call.settlement.data.t = "array"
    /\ \A i \in DOMAIN call.settlement.data.v : call.settlement.data.v[i].t = "object"

\* Two compound values with the same fields: the same component and access
\* level, or the same entity type and entity.
StructurallyEqual(a, b) == [a EXCEPT !.ref = 0] = [b EXCEPT !.ref = 0]

\* C13: for GetApplicationComponentsAccessibleByUser and ...ByGroup and
\* GetEntitiesAccessibleByUser and ...ByGroup, the returned set holds no two
\* structurally equal entries, also when the wire array repeats an object,
\* and it has as many entries as the wire array has distinct objects.
C13_CompoundSetHasNoDuplicates ==
    (/\ AnsweredWithArrayOfObjects
     /\ call.op \in {"GetApplicationComponentsAccessibleByUser",
                     "GetApplicationComponentsAccessibleByGroup",
                     "GetEntitiesAccessibleByUser", "GetEntitiesAccessibleByGroup"}) =>
        LET wire == call.settlement.data.v
            entries == call.result.value.v
        IN /\ call.result.kind = "return"
           /\ \A i, j \in DOMAIN entries :
                StructurallyEqual(entries[i], entries[j]) => i = j
           /\ Len(entries) = Cardinality({wire[i] : i \in DOMAIN wire})

\* C14: for GetEntitiesOfTypeAccessibleByUser and ...ByGroup answered with
\* status 200, the returned set is the set of the entity strings of the wire
\* array: each wire entity is in it, nothing else is, and an entity that the
\* wire array repeats is in it once.
C14_EntitySetIsDistinctWireEntities ==
    (/\ AnsweredWithArrayOfObjects
     /\ call.op \in {"GetEntitiesOfTypeAccessibleByUser",
                     "GetEntitiesOfTypeAccessibleByGroup"}) =>
        LET wire == call.settlement.data.v
            entries == call.result.value.v
        IN /\ call.result.kind = "return"
           /\ call.result.value.t = "Set"
           /\ {entries[i] : i \in DOMAIN entries} =
                {GetProperty(wire[i], "entity") : i \in DOMAIN wire}
           /\ \A i, j \in DOMAIN entries : entries[i] = entries[j] => i = j

\* GetEntitiesOfTypeAccessibleByUser was answered with CompanyA, CompanyA and
\* CompanyB and has returned the set of CompanyA and CompanyB.
C14_Witness ==
    /\ AnsweredWithArrayOfObjects
    /\ call.op = "GetEntitiesOfTypeAccessibleByUser"
    /\ Len(call.settlement.data.v) = 3
    /\ GetProperty(call.settlement.data.v[1], "entity") = Str("CompanyA")
    /\ GetProperty(call.settlement.data.v[2], "entity") = Str("CompanyA")
    /\ call.result.value.v = <<Str("CompanyA"), Str("CompanyB")>>

----------------------------------------------------------------------------
(* Requests.                                                                 *)

\* How many times the segments api, v1 follow one another in a path.
ApiVersionSegments(path) ==
    Cardinality({i \in 1..(Len(path) - 1) : path[i] = "api" /\ path[i + 1] = "v1"})

AddOperations ==
    {"AddUser", "AddGroup", "AddUserToGroupMapping",
     "AddGroupToGroupMapping",
     "AddUserToApplicationComponentAndAccessLevelMapping",
     "AddGroupToApplicationComponentAndAccessLevelMapping", "AddEntityType",
     "AddEntity", "AddUserToEntityMapping", "AddGroupToEntityMapping"}

RemoveOperations ==
    {"RemoveUser", "RemoveGroup", "RemoveUserToGroupMapping",
     "RemoveGroupToGroupMapping",
     "RemoveUserToApplicationComponentAndAccessLevelMapping",
     "RemoveGroupToApplicationComponentAndAccessLevelMapping",
     "RemoveEntityType", "RemoveEntity", "RemoveUserToEntityMapping",
     "RemoveGroupToEntityMapping"}

\* C16: an invocation of a public operation issues exactly one request, of
\* the method of its primitive: POST for the Add operations, DELETE for the
\* Remove operations and GET for every other one; this is so while the
\* request is in flight and once it is answered, whatever the outcome. After
\* a failure (no response, a non-success status, an error body that cannot
\* be decoded) no second request has been sent, and the caller has the error
\* and no result.
C16_OneRequestPerInvocation ==
    /\ call.pc = "idle" => call.requests = <<>>
    /\ Issued =>
        /\ Len(call.requests) = 1
        /\ call.requests[1].method =
                (IF call.op \in AddOperations THEN "POST"
                 ELSE IF call.op \in RemoveOperations THEN "DELETE"
                 ELSE "GET")
        /\ call.requests[1].url = Href(call.url)
    /\ Done =>
        /\ call.result.kind \in {"return", "throw"}
        /\ call.outcome.kind = "throw" => call.result = call.outcome
        /\ call.result.kind = "throw" =>
                (call.result.value = Undefined /\ call.result.error # NoError)

\* RemoveGroupToEntityMapping got no response: it has raised an error after
\* its one DELETE.
C16_Witness ==
    /\ Done
    /\ call.op = "RemoveGroupToEntityMapping"
    /\ call.settlement = RejectedWithoutResponse
    /\ call.result.kind = "throw"
    /\ Len(call.requests) = 1
    /\ call.requests[1].method = "DELETE"

----------------------------------------------------------------------------
(* Identifiers in URLs.                                                      *)

\* The parameters of an operation that are plain strings (entityType and
\* entity); its other identifiers are values of TUser, TGroup, TComponent
\* and TAccess.
StringParameters(op) ==
    CASE op \in {"AddEntityType", "ContainsEntityType", "RemoveEntityType",
                "GetEntities"} ->
            {1}
      [] op \in {"AddEntity", "ContainsEntity", "RemoveEntity",
                "GetEntityToUserMappings", "GetEntityToGroupMappings"} ->
            {1, 2}
      [] op \in {"GetUserToEntityMappingsForType",
                "GetGroupToEntityMappingsForType",
                "GetEntitiesOfTypeAccessibleByUser",
                "GetEntitiesOfTypeAccessibleByGroup"} ->
            {2}
      [] op \in {"AddUserToEntityMapping", "RemoveUserToEntityMapping",
                "AddGroupToEntityMapping", "RemoveGroupToEntityMapping",
                "HasAccessToEntity"} ->
            {2, 3}
      [] OTHER -> {}

\* The strings that identify the arguments of the call, the flag of a query
\* left out.
IdentifierStrings ==
    {IF k \in StringParameters(call.op) THEN call.args[k] ELSE call.args[k].value.v :
        k \in {j \in DOMAIN call.args :
                ~(call.op \in FlaggedQueries /\ j = Len(call.args))}}

\* C17: for every identifier, also one with reserved characters (space, "/",
\* "?", "#", "%") and the dot segments "." and "..", the path of the URL
\* handed to the transport has the identifier as one percent-encoded
\* segment, which decodes to the identifier (so that different identifiers
\* give different URLs): the path is the base URL's followed by the
\* segments the operation writes, none added or dropped.
C17_IdentifierIsOneSegment ==
    Issued =>
        /\ \A s \in IdentifierStrings :
                \E i \in DOMAIN call.url.path :
                    /\ call.url.path[i] = EncodeURIComponent(s)
                    /\ DecodeURIComponent(call.url.path[i]) = s
        /\ \A i \in DOMAIN call.url.path : call.url.path[i] \notin {"", ".", ".."}

----------------------------------------------------------------------------
(* The URLs of the Add, Contains and Remove operations.                      *)

\* The Add operation of the element or mapping that a Contains or Remove
\* operation is about.
AddOperationOf(op) ==
    CASE op = "ContainsUser" -> "AddUser"
      [] op = "RemoveUser" -> "AddUser"
      [] op = "ContainsGroup" -> "AddGroup"
      [] op = "RemoveGroup" -> "AddGroup"
      [] op = "RemoveUserToGroupMapping" -> "AddUserToGroupMapping"
      [] op = "RemoveGroupToGroupMapping" -> "AddGroupToGroupMapping"
      [] op = "RemoveUserToApplicationComponentAndAccessLevelMapping" -> "AddUserToApplicationComponentAndAccessLevelMapping"
      [] op = "RemoveGroupToApplicationComponentAndAccessLevelMapping" -> "AddGroupToApplicationComponentAndAccessLevelMapping"
      [] op = "ContainsEntityType" -> "AddEntityType"
      [] op = "RemoveEntityType" -> "AddEntityType"
      [] op = "ContainsEntity" -> "AddEntity"
      [] op = "RemoveEntity" -> "AddEntity"
      [] op = "RemoveUserToEntityMapping" -> "AddUserToEntityMapping"
      [] op = "RemoveGroupToEntityMapping" -> "AddGroupToEntityMapping"

\* The string that identifies the k-th argument of the call.
IdentifierString(k) ==
    IF k \in StringParameters(call.op) THEN call.args[k] ELSE call.args[k].value.v

\* The segments of the REST contract for the elements and for the user to
\* group mappings, with the encoded identifiers ids.
ContractSegments(op, ids) ==
    CASE op = "AddUser" -> <<"users", ids[1]>>
      [] op = "AddGroup" -> <<"groups", ids[1]>>
      [] op = "AddEntityType" -> <<"entityTypes", ids[1]>>
      [] op = "AddEntity" -> <<"entityTypes", ids[1], "entities", ids[2]>>
      [] op = "AddUserToGroupMapping" -> <<"userToGroupMappings", "user", ids[1], "group", ids[2]>>

----------------------------------------------------------------------------
(* The arrays the read operations return.                                    *)

\* The field of a wire element that a read operation returns, and the type
\* parameter its values are of ("" for a plain string); the operations not
\* listed return the element itself or a compound value.
ReturnedField(op) ==
    CASE op \in {"GetUserToGroupMappings",
                 "GetApplicationComponentAndAccessLevelToGroupMappings",
                 "GetEntityToGroupMappings"} -> <<"group", "TGroup">>
      [] op \in {"GetGroupToUserMappings",
                 "GetApplicationComponentAndAccessLevelToUserMappings",
                 "GetEntityToUserMappings"} -> <<"user", "TUser">>
      [] op = "GetGroupToGroupMappings" -> <<"toGroup", "TGroup">>
      [] op = "GetGroupToGroupReverseMappings" -> <<"fromGroup", "TGroup">>
      [] op \in {"GetEntities", "GetUserToEntityMappingsForType",
                 "GetGroupToEntityMappingsForType"} -> <<"entity", "">>

\* The wire element is one the operation's endpoint answers with.
WellFormed(op, element) ==
    CASE op \in {"GetUsers", "GetGroups", "GetEntityTypes"} -> element.t = "string"
      [] op \in {"GetUserToApplicationComponentAndAccessLevelMappings",
                 "GetGroupToApplicationComponentAndAccessLevelMappings"} ->
            /\ HasOwnProperty(element, "applicationComponent")
            /\ HasOwnProperty(element, "accessLevel")
      [] op \in {"GetUserToEntityMappings", "GetGroupToEntityMappings"} ->
            HasOwnProperty(element, "entityType") /\ HasOwnProperty(element, "entity")
      [] OTHER -> HasOwnProperty(element, ReturnedField(op)[1])

\* What a read operation returns for one wire element, the identity of a
\* compound value left out.
ExpectedElement(op, element) ==
    CASE op = "GetUsers" -> [type |-> "TUser", value |-> element]
      [] op = "GetGroups" -> [type |-> "TGroup", value |-> element]
      [] op = "GetEntityTypes" -> element
      [] op \in {"GetUserToApplicationComponentAndAccessLevelMappings",
                 "GetGroupToApplicationComponentAndAccessLevelMappings"} ->
            [t |-> "ApplicationComponentAndAccessLevel", ref |-> 0,
             ApplicationComponent |-> [type |-> "TComponent",
                                       value |-> element.v["applicationComponent"]],
             AccessLevel |-> [type |-> "TAccess", value |-> element.v["accessLevel"]]]
      [] op \in {"GetUserToEntityMappings", "GetGroupToEntityMappings"} ->
            [t |-> "EntityTypeAndEntity", ref |-> 0,
             EntityType |-> element.v["entityType"], Entity |-> element.v["entity"]]
      [] OTHER ->
            IF ReturnedField(op)[2] = ""
            THEN element.v[ReturnedField(op)[1]]
            ELSE [type |-> ReturnedField(op)[2], value |-> element.v[ReturnedField(op)[1]]]

\* The request was answered with status 200 and an array of elements that
\* the operation's endpoint answers with.
AnsweredWithWellFormedArray ==
    /\ Done
    /\ call.op \in ArrayOperations
    /\ call.settlement.kind = "resolved"
    /\ call.settlement.status = Num(200)
    /\ call.settlement.data.t = "array"
    /\ \A i \in DOMAIN call.settlement.data.v :
            WellFormed(call.op, call.settlement.data.v[i])

\* C19: for each read operation that returns an array, answered with status
\* 200, the result has the length and the order of the wire array, and its
\* i-th element is built from the i-th wire element alone: FromString, of
\* the stringifier of the other side's type, of the other side's field
\* (group, user, toGroup, fromGroup), the plain entity or entity type, or a
\* compound value with each field from the field of that name.
C19_ArrayFollowsWireArray ==
    AnsweredWithWellFormedArray =>
        LET wire == call.settlement.data.v
            results == call.result.value.v
        IN /\ call.result.kind = "return"
           /\ call.result.value.t = "Array"
           /\ Len(results) = Len(wire)
           /\ \A i \in DOMAIN wire :
                IF call.op \in {"GetUserToApplicationComponentAndAccessLevelMappings",
                                "GetGroupToApplicationComponentAndAccessLevelMappings",
                                "GetUserToEntityMappings", "GetGroupToEntityMappings"}
                THEN StructurallyEqual(results[i], ExpectedElement(call.op, wire[i]))
                ELSE results[i] = ExpectedElement(call.op, wire[i])

\* GetGroupToGroupReverseMappings was answered with the fromGroups admins,
\* admins and staff and has returned these three groups in this order.
C19_Witness ==
    /\ AnsweredWithWellFormedArray
    /\ call.op = "GetGroupToGroupReverseMappings"
    /\ Len(call.settlement.data.v) = 3
    /\ call.result.value.v = <<[type |-> "TGroup", value |-> Str("admins")],
                                [type |-> "TGroup", value |-> Str("admins")],
                                [type |-> "TGroup", value |-> Str("staff")]>>

----------------------------------------------------------------------------
(* The client's configuration.                                               *)

\* C20: once the constructor has returned, no step of an operation or of a
\* request primitive, on any outcome, changes the client's configuration:
\* the base URL, the four stringifiers, the request configuration and the
\* status to error table stay what they were after construction.
C20_ConfigurationUnchanged ==
    [][/\ client'.baseUrl = client.baseUrl
       /\ client'.userStringifier = client.userStringifier
       /\ client'.groupStringifier = client.groupStringifier
       /\ client'.applicationComponentStringifier = client.applicationComponentStringifier
       /\ client'.accessLevelStringifier = client.accessLevelStringifier
       /\ client'.requestConfig = client.requestConfig
       /\ client'.statusCodeToErrorThrowingFunctionMap =
            client.statusCodeToErrorThrowingFunctionMap]_vars

\* A second operation has failed on a status 404 with an error body, and the
\* client has the configuration the constructor gave it.
C20_Witness ==
    /\ Done
    /\ nCalls = MaxCalls
    /\ call.result.kind = "throw"
    /\ ReceivedStatus = Num(404)
    /\ \E baseUrl \in BaseUrls, requestConfig \in RequestConfigs :
            client = SetBaseConstructorParameters(baseUrl, UniqueStringifier("TUser"),
                        UniqueStringifier("TGroup"), UniqueStringifier("TComponent"),
                        UniqueStringifier("TAccess"), requestConfig)
    /\ Href(client.baseUrl) = "http://x/api/v1/"
    /\ client.statusCodeToErrorThrowingFunctionMap = InitializeStatusCodeToErrorThrowingFunctionMap

----------------------------------------------------------------------------
(* Several operations in flight at once. The caller invokes an operation     *)
(* without awaiting the promises of the earlier ones. The code of an         *)
(* operation between two awaits runs to its end before any other code of the *)
(* program runs: an operation takes its steps at its invocation (up to the   *)
(* await of the transport), at the settlement of its request (the rest of    *)
(* the primitive) and at the return of its primitive (the rest of the        *)
(* operation), and the steps of the operations in flight interleave.         *)

\* The number of promises the caller holds at once.
MaxInFlight == 2

Promises == 1..MaxInFlight

\* The operations the caller invokes at once, with their arguments.
ConcurrentInvocations ==
    {[op |-> "AddUser", args |-> <<TypedValue("TUser", "alice")>>],
     [op |-> "ContainsUser", args |-> <<TypedValue("TUser", "a b/c")>>],
     [op |-> "RemoveGroup", args |-> <<TypedValue("TGroup", "admins")>>],
     [op |-> "GetUserToGroupMappings", args |-> <<TypedValue("TUser", "alice"), Bool(TRUE)>>],
     [op |-> "GetEntitiesOfTypeAccessibleByUser",
      args |-> <<TypedValue("TUser", "alice"), "ClientAccount">>]}

\* The settlements of their requests: with and without a response, with a
\* result array, a boolean, an error body and no body.
ConcurrentSettlements(requestConfig) ==
    {RejectedWithoutResponse}
    \cup {IF ValidateStatus(requestConfig, status)
          THEN Resolved(status, data) ELSE RejectedWithStatus(status, data) :
            status \in {200, 201, 404, 500},
            data \in {Undefined, Bool(TRUE),
                      Arr(<<WireObject([group |-> "admins"]), WireObject([group |-> "staff"])>>),
                      Arr(<<WireObject([entity |-> "CompanyA"]), WireObject([entity |-> "CompanyA"])>>),
                      ErrorBody(Str("UserNotFoundException"), Str("It failed."),
                                Arr(<<Attribute("User", "alice")>>), Undefined)}}

InitConcurrent ==
    /\ client \in {SetBaseConstructorParameters(baseUrl, UniqueStringifier("TUser"),
                       UniqueStringifier("TGroup"), UniqueStringifier("TComponent"),
                       UniqueStringifier("TAccess"), requestConfig) :
                       baseUrl \in BaseUrls, requestConfig \in RequestConfigs}
    /\ call = Idle
    /\ nCalls = 0
    /\ inFlight = [p \in Promises |-> Idle]

\* The caller invokes an operation: its URL is built and its request is
\* handed to the transport, and the caller has the promise p.
Invoke(p) ==
    /\ inFlight[p].pc = "idle"
    /\ nCalls < MaxCalls
    /\ nCalls' = nCalls + 1
    /\ \E invocation \in ConcurrentInvocations :
        LET op == invocation.op
            url == RequestUrl(op, invocation.args)
        IN inFlight' = [inFlight EXCEPT ![p] =
                [Idle EXCEPT !.pc = "awaiting", !.op = op, !.args = invocation.args,
                             !.primitive = OperationPrimitive(op), !.url = url,
                             !.requests = <<[method |-> PrimitiveMethod(OperationPrimitive(op)),
                                             url |-> Href(url),
                                             config |-> client.requestConfig]>>]]
    /\ UNCHANGED <<client, call>>

\* The transport settles the request of p and the primitive runs to its end.
Respond(p) ==
    /\ inFlight[p].pc = "awaiting"
    /\ \E st \in ConcurrentSettlements(client.requestConfig) :
        inFlight' = [inFlight EXCEPT ![p] =
            [@ EXCEPT !.pc = "returned", !.settlement = st,
                      !.outcome = PrimitiveOutcome(inFlight[p].primitive, client,
                                                  inFlight[p].url, st)]]
    /\ UNCHANGED <<client, call, nCalls>>

\* Resume with the outcome of the first promise's primitive, as if the
\* primitives left what they return in one place of the client.
Resume_SharedOutcome(p) ==
    /\ inFlight[p].pc = "returned"
    /\ inFlight' = [inFlight EXCEPT ![p] =
            [@ EXCEPT !.pc = "done",
                      !.result = OperationResult(client, inFlight[p].op,
                                                inFlight[1].outcome)]]
    /\ UNCHANGED <<client, call, nCalls>>

\* The operation of p resumes after the await of its primitive and runs to
\* its end.
Resume(p) ==
    /\ inFlight[p].pc = "returned"
    /\ inFlight' = [inFlight EXCEPT ![p] =
            [@ EXCEPT !.pc = "done",
                      !.result = OperationResult(client, inFlight[p].op,
                                                 inFlight[p].outcome)]]
    /\ UNCHANGED <<client, call, nCalls>>

\* The caller has the result or the error of p.
Resolve(p) ==
    /\ inFlight[p].pc = "done"
    /\ inFlight' = [inFlight EXCEPT ![p] = Idle]
    /\ UNCHANGED <<client, call, nCalls>>

NextConcurrent ==
    \/ \E p \in Promises : Invoke(p)
    \/ \E p \in Promises : Respond(p)
    \/ \E p \in Promises : Resume(p)
    \/ \E p \in Promises : Resolve(p)

SpecConcurrent == InitConcurrent /\ [][NextConcurrent]_vars

\* C21: with several operations in flight on one client, in every
\* interleaving of their steps, the URL and the method of each operation are
\* those of its own arguments, and what its primitive and the operation
\* itself come to (a result or an error) is that of its own arguments and the
\* settlement of its own request. A step of one operation changes nothing of
\* another, and no operation waits for another: a request in flight can be
\* settled and an operation can resume whatever the others are at.
C21_InFlightOperationsIndependent ==
    /\ [](\A p \in Promises :
            LET c == inFlight[p]
                url == RequestUrl(c.op, c.args)
                outcome == PrimitiveOutcome(OperationPrimitive(c.op), client, url, c.settlement)
            IN /\ c.pc # "idle" =>
                    /\ c.url = url
                    /\ c.requests = <<[method |-> PrimitiveMethod(OperationPrimitive(c.op)),
                                       url |-> Href(url), config |-> client.requestConfig]>>
               /\ c.pc \in {"returned", "done"} => c.outcome = outcome
               /\ c.pc = "done" => c.result = OperationResult(client, c.op, outcome)
               /\ c.pc = "awaiting" => ENABLED Respond(p)
               /\ c.pc = "returned" => ENABLED Resume(p)
               /\ (c.pc = "idle" /\ nCalls < MaxCalls) => ENABLED Invoke(p))
    /\ [][\A p, q \in Promises :
            (p # q /\ inFlight'[p] # inFlight[p]) => inFlight'[q] = inFlight[q]]_vars

\* Two operations were invoked one after the other; the second one's request
\* was answered first and it has returned its set, while the first one's
\* request is still in flight.
C21_Witness ==
    /\ nCalls = 2
    /\ inFlight[1].pc = "awaiting"
    /\ inFlight[1].op = "AddUser"
    /\ inFlight[2].pc = "done"
    /\ inFlight[2].op = "GetEntitiesOfTypeAccessibleByUser"
    /\ inFlight[2].result.kind = "return"
    /\ inFlight[2].result.value.v = <<Str("CompanyA")>>


----------------------------------------------------------------------------
(* The access queries.                                                       *)

AccessQueries == {"HasAccessToApplicationComponent", "HasAccessToEntity"}

\* The path of the REST contract for an access query with the encoded
\* identifiers ids, below the base URL's.
AccessQuerySegments(op, ids) ==
    IF op = "HasAccessToApplicationComponent"
    THEN <<"dataElementAccess", "applicationComponent", "user", ids[1],
           "applicationComponent", ids[2], "accessLevel", ids[3]>>
    ELSE <<"dataElementAccess", "entity", "user", ids[1],
           "entityType", ids[2], "entity", ids[3]>>

\* C22: HasAccessToApplicationComponent and HasAccessToEntity send one GET
\* to the contract's dataElementAccess URL through SendGetRequestAsync and
\* return the response body unchanged; a 404 status on them raises an error
\* and is never turned into a returned value such as false (identifiers that
\* are dot segments are left out of the URL part: the URL parser removes
\* them).
C22_AccessQueries ==
    (Issued /\ call.op \in AccessQueries) =>
        LET ids == [k \in DOMAIN call.args |-> EncodeURIComponent(IdentifierString(k))]
        IN /\ call.primitive = "SendGetRequestAsync"
           /\ Len(call.requests) = 1 /\ call.requests[1].method = "GET"
           /\ IdentifierStrings \cap {".", ".."} = {} =>
                /\ call.url = AppendPathToBaseUrl(client, AccessQuerySegments(call.op, ids), "")
                /\ call.requests[1].url = Href(call.url)
           /\ (Done /\ call.result.kind = "return") =>
                call.result.value = call.settlement.data
           /\ (Done /\ ReceivedStatus = Num(404)) => call.result.kind = "throw"


----------------------------------------------------------------------------
(* The stringifier of each type parameter.                                   *)

TypeParameters == {"TUser", "TGroup", "TComponent", "TAccess"}

\* The positions of the identifiers among the arguments of the call, the
\* flag of a query left out.
IdentifierPositions ==
    {j \in DOMAIN call.args : ~(call.op \in FlaggedQueries /\ j = Len(call.args))}

\* The type parameter of the elements a read operation returns ("" when
\* they are plain strings or compound values).
ResultTypeParameter(op) ==
    CASE op \in {"GetUsers", "GetGroupToUserMappings",
                 "GetApplicationComponentAndAccessLevelToUserMappings",
                 "GetEntityToUserMappings"} -> "TUser"
      [] op \in {"GetGroups", "GetUserToGroupMappings", "GetGroupToGroupMappings",
                 "GetGroupToGroupReverseMappings",
                 "GetApplicationComponentAndAccessLevelToGroupMappings",
                 "GetEntityToGroupMappings"} -> "TGroup"
      [] OTHER -> ""

\* The element of a result is converted by the stringifiers of its own type
\* parameters, and is a plain string where the contract has one.
OfOwnTypeParameter(op, element) ==
    IF ResultTypeParameter(op) # ""
    THEN /\ "type" \in DOMAIN element
         /\ element = StringifierFromString(UniqueStringifier(ResultTypeParameter(op)),
                                            element.value)
    ELSE /\ "t" \in DOMAIN element
         /\ element.t = "ApplicationComponentAndAccessLevel" =>
                /\ element.ApplicationComponent =
                        StringifierFromString(UniqueStringifier("TComponent"),
                                              element.ApplicationComponent.value)
                /\ element.AccessLevel =
                        StringifierFromString(UniqueStringifier("TAccess"),
                                              element.AccessLevel.value)
         /\ element.t = "EntityTypeAndEntity" =>
                ("t" \in DOMAIN element.EntityType /\ "t" \in DOMAIN element.Entity)

\* C23: in every operation each typed identifier is converted by the
\* stringifier of its own type parameter and by no other: the identifiers
\* in the path of the URL are, in the order of the parameters, ToString of
\* the stringifier of the argument's type parameter for a user, a group, a
\* component or an access level, and the plain string for an entity type or
\* an entity; the elements of a result are FromString of the stringifier of
\* their type parameter, and entity types and entities are the plain strings
\* of the response (identifiers that are dot segments are left out of the
\* URL part: the URL parser removes them).
C23_OwnStringifier ==
    /\ (Issued /\ IdentifierStrings \cap {".", ".."} = {}) =>
            LET ids == [k \in IdentifierPositions |->
                            EncodeURIComponent(
                                IF k \in StringParameters(call.op)
                                THEN call.args[k]
                                ELSE StringifierToString(
                                        UniqueStringifier(call.args[k].type), call.args[k]))]
                IsIdentifier(segment) == \E k \in DOMAIN ids : ids[k] = segment
            IN /\ \A k \in IdentifierPositions \ StringParameters(call.op) :
                    call.args[k].type \in TypeParameters
               /\ SelectSeq(call.url.path, IsIdentifier) = ids
    /\ (Done /\ call.result.kind = "return" /\ call.op \in ArrayOperations \cup SetOperations) =>
            \A i \in DOMAIN call.result.value.v :
                OfOwnTypeParameter(call.op, call.result.value.v[i])

\* AddUserToApplicationComponentAndAccessLevelMapping has sent its request
\* with the user, the component and the access level in the path, each
\* converted by its own stringifier.
C23_Witness ==
    /\ Done
    /\ call.op = "AddUserToApplicationComponentAndAccessLevelMapping"
    /\ call.args = <<TypedValue("TUser", "a b/c"), TypedValue("TComponent", "Order"),
                     TypedValue("TAccess", "View")>>
    /\ call.requests[1].url = "http://x/api/v1/userToApplicationComponentAndAccessLevelMappings/user/a%20b%2Fc/applicationComponent/Order/accessLevel/View"


----------------------------------------------------------------------------
(* The inner error of an error body.                                         *)

\* The body carries a nested error object.
HasErrorObject(data) ==
    /\ data.t = "object"
    /\ HasOwnProperty(data, "error")
    /\ GetProperty(data, "error").t = "object"

\* The inner errors a body is compared under: none, an empty one, and one
\* that carries a known not-found code itself.
InnerErrorAlternatives ==
    {Undefined, EmptyObj,
     Obj(("code" :> Str("UserNotFoundException")) @@ ("message" :> Str("inner"))
         @@ ("attributes" :> Arr(<<Attribute("User", "eve")>>))),
     Obj(("code" :> Str("EntityNotFoundException")) @@ ("message" :> Str("inner")))}

\* The body with its error's innerError field replaced (left out for
\* Undefined), everything else as it is.
WithInnerError(data, innerError) ==
    LET error == GetProperty(data, "error").v
        rest == [k \in DOMAIN error \ {"innerError"} |-> error[k]]
    IN [data EXCEPT !.v["error"] =
            Obj(IF innerError = Undefined THEN rest
                ELSE rest @@ ("innerError" :> innerError))]

\* C24: the error raised for a non-success response does not depend on the
\* innerError field of the body: the same response with the innerError
\* absent, empty or carrying a known not-found code raises an error of the
\* same class with the same resource id and element type (and, when the
\* body is decoded, the same message), and the decoded record holds the
\* innerError as it was received.
C24_InnerErrorNotInspected ==
    (Done /\ Raised /\ ReceivedStatus # Undefined /\ HasErrorObject(call.settlement.data)) =>
        /\ \A innerError \in InnerErrorAlternatives :
                LET other == PrimitiveOutcome(call.primitive, client, call.url,
                                [call.settlement EXCEPT
                                    !.data = WithInnerError(call.settlement.data, innerError)])
                IN /\ other.kind = "throw"
                   /\ other.error.class = call.outcome.error.class
                   /\ ResourceId(other.error) = ResourceId(call.outcome.error)
                   /\ ElementType(other.error) = ElementType(call.outcome.error)
                   /\ Decoded.r = "record" => other = call.outcome
        /\ Decoded.r = "record" =>
                Decoded.rec.InnerError =
                    (IF HasOwnProperty(GetProperty(call.settlement.data, "error"), "innerError")
                     THEN GetProperty(GetProperty(call.settlement.data, "error"), "innerError")
                     ELSE Null)

\* A 404 whose error has the code ArgumentException, the attribute User bob
\* and an inner error with the code UserNotFoundException has raised a
\* NotFoundError that is no ElementNotFoundError, and the decoded record
\* holds the inner error as an undecoded object.
C24_Witness ==
    /\ Done
    /\ call.settlement.kind = "rejected"
    /\ ReceivedStatus = Num(404)
    /\ call.settlement.data =
            ErrorBody(Str("ArgumentException"), Str("It failed."),
                      Arr(<<Attribute("User", "bob")>>),
                      Obj(("code" :> Str("UserNotFoundException")) @@ ("message" :> Str("inner"))
                          @@ ("attributes" :> Arr(<<Attribute("User", "eve")>>))))
    /\ call.primitive = "SendDeleteRequestAsync"
    /\ call.outcome.error.class = "NotFoundError"
    /\ Decoded.rec.InnerError.t = "object"
    /\ Decoded.rec.InnerError.v["code"] = Str("UserNotFoundException")


----------------------------------------------------------------------------
(* What the decoder accepts.                                                 *)

\* The body holds a nested error object whose code and message fields are
\* both present as strings.
HasCodeAndMessageStrings(data) ==
    /\ ~IsNullish(data)
    /\ HasErrorObject(data)
    /\ LET error == GetProperty(data, "error")
       IN /\ HasOwnProperty(error, "code") /\ GetProperty(error, "code").t = "string"
          /\ HasOwnProperty(error, "message") /\ GetProperty(error, "message").t = "string"

\* C25: DeserializeResponseDataToHttpErrorResponse yields a record exactly
\* when the body holds a nested error object whose code and message are both
\* present as strings, and takes every other body as an unstructured failure
\* (it yields null for it); every decoded record has a string code and a
\* string message, and its attributes are the wire attributes in their
\* order.
C25_DecodesOnlyCodeAndMessageStrings ==
    (Done /\ RoutedToErrorHandling) =>
        LET data == call.settlement.data
        IN /\ Decoded.r = "record" <=> HasCodeAndMessageStrings(data)
           /\ Decoded.r # "record" => Decoded.r = "null"
           /\ Decoded.r = "record" =>
                /\ Decoded.rec.Code.t = "string"
                /\ Decoded.rec.Message.t = "string"
                /\ HasOwnProperty(GetProperty(data, "error"), "attributes") =>
                        LET wire == GetProperty(GetProperty(data, "error"), "attributes").v
                        IN /\ Len(Decoded.rec.Attributes) = Len(wire)
                           /\ \A i \in DOMAIN wire :
                                Decoded.rec.Attributes[i] =
                                    NameValuePair(GetProperty(wire[i], "name"),
                                                  GetProperty(wire[i], "value"))


----------------------------------------------------------------------------
(* The end of the error handling.                                            *)

\* C26: HandleNonSuccessResponseStatus never returns normally: for every
\* received status and every response body it raises an error. So in every
\* primitive a rejected transport call ends in the error its catch block
\* raised, or in false for a 404 on the existence check, and the code after
\* the catch block reads no response that was never assigned.
C26_ErrorHandlingAlwaysRaises ==
    Done =>
        LET method == PrimitiveMethod(call.primitive)
            handled == CatchBlock(client, method, call.url, call.settlement)
        IN /\ ReceivedStatus # Undefined =>
                HandleNonSuccessResponseStatus(client, method, call.url,
                    call.settlement.status, call.settlement.data).kind = "throw"
           /\ RoutedToErrorHandling => Raised
           /\ call.settlement.kind = "rejected" =>
                \/ /\ call.primitive = "SendGetRequestForContainsMethodAsync"
                   /\ ReceivedStatus = Num(404)
                   /\ call.outcome = Return(Bool(FALSE), <<>>)
                \/ /\ handled.kind = "throw"
                   /\ call.outcome = handled

\* A DELETE rejected with status 404 and an error body with the code
\* ArgumentException has raised the NotFoundError that the function of the
\* table threw.
C26_Witness ==
    /\ Done
    /\ call.primitive = "SendDeleteRequestAsync"
    /\ call.settlement = RejectedWithStatus(404,
            ErrorBody(Str("ArgumentException"), Str("It failed."),
                      Arr(<<Attribute("ResourceId", "xyz")>>), Undefined))
    /\ call.outcome.kind = "throw"
    /\ call.outcome.error.class = "NotFoundError"
    /\ ResourceId(call.outcome.error) = Str("xyz")
    /\ call.outcome.via[Len(call.outcome.via)] = "statusCodeToErrorThrowingFunctionMap.get"


----------------------------------------------------------------------------
(* A 404 without a structured error.                                         *)

\* C27: the status to error table is consulted only after the body has been
\* decoded: a 404 whose body is absent or cannot be decoded as a structured
\* error gives false on the existence check, and on every other primitive
\* raises the plain Error of the unstructured failure (its message has the
\* status, and the body when there is one), never a NotFoundError or an
\* ElementNotFoundError.
C27_Undecoded404IsGeneric ==
    (Done /\ ReceivedStatus = Num(404) /\ Unstructured(call.settlement.data)) =>
        IF call.primitive = "SendGetRequestForContainsMethodAsync"
        THEN call.outcome = Return(Bool(FALSE), <<>>)
        ELSE /\ Raised
             /\ ~InstanceOf(call.outcome.error, "NotFoundError")
             /\ call.outcome.error.class = "Error"
             /\ \A i \in DOMAIN call.outcome.via :
                    call.outcome.via[i] # "statusCodeToErrorThrowingFunctionMap.has"
             /\ LET base == BaseExceptionMessage(call.requests[1].method, call.url, ReceivedStatus)
                    data == call.settlement.data
                IN call.outcome.error.message =
                        (IF IsNullish(data) THEN base \o <<".">>
                         ELSE base \o <<", and response body '",
                                        IF TypeOf(data) = "object"
                                        THEN JsonStringify(data) ELSE TemplateString(data),
                                        "'.">>)


----------------------------------------------------------------------------
(* ElementNotFoundError among the NotFoundErrors.                            *)

\* C28: every ElementNotFoundError raised is a NotFoundError (and an Error):
\* a caller that tests for NotFoundError receives it. Its ResourceId is its
\* ElementValue, the value of the attribute of the decoded record that is
\* named as its element type ("" when the record has none).
C28_ElementNotFoundIsNotFound ==
    (Done /\ Raised /\ InstanceOf(call.outcome.error, "ElementNotFoundError")) =>
        /\ InstanceOf(call.outcome.error, "NotFoundError")
        /\ InstanceOf(call.outcome.error, "Error")
        /\ ResourceId(call.outcome.error) = ElementValue(call.outcome.error)
        /\ Decoded.r = "record"
        /\ ElementType(call.outcome.error).v \in {"User", "Group", "EntityType", "Entity"}
        /\ ResourceId(call.outcome.error) =
                AttributeOf(Decoded.rec, ElementType(call.outcome.error).v)
        /\ call.result = call.outcome

\* An AddEntity answered 404 with the code EntityNotFoundException and the
\* attributes EntityType and Entity has raised an ElementNotFoundError, which
\* is a NotFoundError with the resource id CompanyA.
C28_Witness ==
    /\ Done
    /\ call.op = "AddEntity"
    /\ ReceivedStatus = Num(404)
    /\ call.settlement.data =
            ErrorBody(Str("EntityNotFoundException"), Str("It failed."),
                      Arr(<<Attribute("EntityType", "ClientAccount"),
                            Attribute("Entity", "CompanyA")>>), Undefined)
    /\ call.result.kind = "throw"
    /\ InstanceOf(call.result.error, "ElementNotFoundError")
    /\ InstanceOf(call.result.error, "NotFoundError")
    /\ ElementType(call.result.error) = Str("Entity")
    /\ ResourceId(call.result.error) = Str("CompanyA")


----------------------------------------------------------------------------
(* The direct queries without a flag.                                        *)

\* The queries of direct mappings that take no includeIndirectMappings
\* parameter.
DirectMappingQueries ==
    {"GetUserToApplicationComponentAndAccessLevelMappings",
     "GetGroupToApplicationComponentAndAccessLevelMappings",
     "GetUserToEntityMappings", "GetUserToEntityMappingsForType",
     "GetGroupToEntityMappings", "GetGroupToEntityMappingsForType"}

\* C29: each query of direct mappings that takes no includeIndirectMappings
\* parameter sends includeIndirectMappings=false, whatever its arguments: the
\* query string of every request it hands to the transport is exactly that,
\* so it never asks for the indirect mappings.
C29_DirectQueriesSendFalse ==
    (Issued /\ call.op \in DirectMappingQueries) =>
        /\ call.url.query = "includeIndirectMappings=false"
        /\ call.primitive = "SendGetRequestAsync"
        /\ \A i \in DOMAIN call.requests :
                /\ call.requests[i].method = "GET"
                /\ call.requests[i].url =
                        Href([call.url EXCEPT !.query = ""]) \o "?includeIndirectMappings=false"

\* GetGroupToEntityMappingsForType has been answered for a request with the
\* flag false.
C29_Witness ==
    /\ Done
    /\ call.op = "GetGroupToEntityMappingsForType"
    /\ call.requests[1].url =
            "http://x/api/v1/groupToEntityMappings/group/admins/entityType/ClientAccount?includeIndirectMappings=false"


----------------------------------------------------------------------------
(* The request configuration.                                                *)

\* The headers of a request configuration, none when it has no headers
\* collection.
HeadersOf(requestConfig) ==
    IF requestConfig.headers = Undefined THEN EmptyObj.v ELSE requestConfig.headers.v

\* C30: the client's request configuration is the object the caller
\* supplied, with the header Accept = application/json written into it: the
\* headers collection is created when the caller gave none, an Accept value
\* of the caller is replaced, and every other header and setting is the
\* caller's; every request of the client is sent with this configuration.
C30_AcceptWrittenIntoCallersConfig ==
    /\ \E requestConfig \in RequestConfigs :
            /\ client.requestConfig.object = requestConfig.object
            /\ client.requestConfig.headers.t = "object"
            /\ DOMAIN client.requestConfig.headers.v =
                    DOMAIN HeadersOf(requestConfig) \cup {"Accept"}
            /\ client.requestConfig.headers.v["Accept"] = Str("application/json")
            /\ \A name \in DOMAIN HeadersOf(requestConfig) \ {"Accept"} :
                    client.requestConfig.headers.v[name] = HeadersOf(requestConfig)[name]
            /\ client.requestConfig.validateStatus = requestConfig.validateStatus
    /\ Issued =>
            /\ Len(call.requests) > 0
            /\ \A i \in DOMAIN call.requests : call.requests[i].config = client.requestConfig

\* The second operation of a client constructed with the headers Accept =
\* text/html and Authorization has sent its request with Accept =
\* application/json and the caller's Authorization header.
C30_Witness ==
    /\ Done
    /\ nCalls = MaxCalls
    /\ call.requests[1].config.object = "the caller's"
    /\ call.requests[1].config.headers =
            Obj(("Accept" :> Str("application/json")) @@ ("Authorization" :> Str("Bearer t")))
    /\ call.requests[1].config.validateStatus = "all"

====
